---- MODULE Spec2Model ----
(***************************************************************************)
(* Model of gcali/pgraph: the labelled graph of src/src/graph.py (Edge,    *)
(* Node, Graph), its frontier queues of src/src/_queue.py, the             *)
(* label-correcting shortest-path loop (dijkstra / bellman) and the        *)
(* augmenting-path maximum-flow loop (max_flux).                           *)
(*                                                                         *)
(* Python values: None is the empty tuple <<>>, a present value v is the   *)
(* one-element tuple <<v>> (TLC cannot compare an integer with a           *)
(* non-integer, and the code tells None from 0).  float("inf") is Inf.     *)
(* A dict is a sequence in insertion order, which is the order in which    *)
(* Python iterates over it.                                                *)
(***************************************************************************)
EXTENDS Integers, Sequences, FiniteSets, TLC

VARIABLES
    pc,        \* position of the running call
    g,         \* the Graph the call runs on: [directed, node_map]
    g0,        \* the graph as it was when the call started
    args,      \* the arguments of the running call
    queue,     \* the frontier queue of the running search
    father,    \* father[node] of _flux_find_path / _shortest_path
    capacity,  \* capacity[node] of _flux_find_path
    distance,  \* distance[node] of _shortest_path
    path,      \* the (path, capacity) pair returned by _flux_find_path
    result,    \* result graphs returned by dijkstra / bellman
    raised,    \* the exception that ended the last operation, or "none"
    objects,   \* the objects (Graph, Node, Edge) allocated so far, by address
    refs,      \* the addresses held by the names g and h of a program that copies g
    calls,     \* the number of calls made on the two graphs since the copy
    pending    \* the puts a queue under test has not returned yet, oldest first

vars == <<pc, g, g0, args, queue, father, capacity, distance, path, result, raised,
          objects, refs, calls, pending>>

-----------------------------------------------------------------------------
(* Bounds of the model *)

\* capacities of the generated flow networks range over 0..MaxCap
MaxCap == 2

\* weights of the generated weighted graphs range over -NegWeight..-1 and 1..MaxWeight
\* (and None, which the relaxation counts as 0)
MaxWeight == 2

NegWeight == 1

-----------------------------------------------------------------------------
(* Python values *)

None == <<>>

Some(v) == <<v>>

\* float("inf"): larger than every number the bounded runs can produce
Inf == 1000000

Min(a, b) == IF a < b THEN a ELSE b

SetMin(S) == CHOOSE x \in S : \A y \in S : x <= y

\* sorted(keys): the ascending sequence of a finite set of integer labels
RECURSIVE sorted(_)
sorted(S) ==
    IF S = {} THEN <<>>
    ELSE LET m == SetMin(S) IN <<m>> \o sorted(S \ {m})

\* index of the first entry of a connection sequence whose key is end_label, 0 if none
IndexOf(conns, end_label) ==
    IF \E i \in 1..Len(conns) : conns[i].end_label = end_label
    THEN SetMin({i \in 1..Len(conns) : conns[i].end_label = end_label})
    ELSE 0

-----------------------------------------------------------------------------
(* Edge, Node *)

Edge(end_label, weight, lbound, ubound, flux) ==
    [end_label |-> end_label, weight |-> weight, lbound |-> lbound,
     ubound |-> ubound, flux |-> flux]

Node(label, value) == [label |-> label, value |-> value, connections |-> <<>>]

\* connect that updates an existing Edge, keeping the attributes the call leaves out
connect_merge(node, end_label, weight, lbound, ubound, flux) ==
    LET i == IndexOf(node.connections, end_label)
        e == Edge(end_label, weight, lbound, ubound, flux)
        old == node.connections[i]
        m == Edge(end_label,
                  IF weight = None THEN old.weight ELSE weight,
                  IF lbound = None THEN old.lbound ELSE lbound,
                  IF ubound = None THEN old.ubound ELSE ubound,
                  IF flux = None THEN old.flux ELSE flux)
    IN  IF i = 0
        THEN [node EXCEPT !.connections = Append(@, e)]
        ELSE [node EXCEPT !.connections[i] = m]

\* Node.connect: self.connections[end_label] = Edge(...); an existing key keeps its place
connect(node, end_label, weight, lbound, ubound, flux) ==
    LET i == IndexOf(node.connections, end_label)
        e == Edge(end_label, weight, lbound, ubound, flux)
    IN  IF i = 0
        THEN [node EXCEPT !.connections = Append(@, e)]
        ELSE [node EXCEPT !.connections[i] = e]

-----------------------------------------------------------------------------
(* Graph *)

Graph(directed) == [directed |-> directed, node_map |-> <<>>]

Labels(G) == DOMAIN G.node_map

\* list_nodes that yields the labels from the largest down
list_nodes_descending(G) ==
    LET up == sorted(Labels(G))
    IN  [i \in 1..Len(up) |-> up[Len(up) + 1 - i]]

list_nodes(G) == sorted(Labels(G))

get_node_value(G, label) == G.node_map[label].value

\* add_node raises AttributeError when it reaches self.set_value, which Graph does not define
add_node_raises(G, label, value) ==
    /\ label \in Labels(G)
    /\ value # None
    /\ get_node_value(G, label) = None

\* add_node that stores a supplied value on a node that exists, whatever it holds
add_node_overwrite(G, label, value) ==
    IF label \notin Labels(G)
    THEN [G EXCEPT !.node_map =
             [l \in Labels(G) \cup {label} |->
                 IF l = label THEN Node(label, value) ELSE G.node_map[l]]]
    ELSE IF value # None THEN [G EXCEPT !.node_map[label].value = value]
    ELSE G

\* the graph add_node leaves behind (when it raises, the graph it had reached)
add_node(G, label, value) ==
    IF label \notin Labels(G)
    THEN [G EXCEPT !.node_map =
             [l \in Labels(G) \cup {label} |->
                 IF l = label THEN Node(label, value) ELSE G.node_map[l]]]
    ELSE G

\* add_connection that always stores the arc under start_label
add_connection_as_given(G, start_label, end_label, weight, lbound, ubound, flux) ==
    LET G1 == add_node(G, start_label, None)
        G2 == add_node(G1, end_label, None)
    IN  [G2 EXCEPT !.node_map[start_label] =
            connect(@, end_label, weight, lbound, ubound, flux)]

add_connection(G, start_label, end_label, weight, lbound, ubound, flux) ==
    LET G1 == add_node(G, start_label, None)
        G2 == add_node(G1, end_label, None)
    IN  IF G2.directed \/ start_label <= end_label
        THEN [G2 EXCEPT !.node_map[start_label] =
                 connect(@, end_label, weight, lbound, ubound, flux)]
        ELSE [G2 EXCEPT !.node_map[end_label] =
                 connect(@, start_label, weight, lbound, ubound, flux)]

is_connected(G, start_label, end_label) ==
    IF start_label \in Labels(G)
    THEN IndexOf(G.node_map[start_label].connections, end_label) # 0
    ELSE FALSE

\* Node.forward_star: the keys of self.connections in dict order
node_forward_star(node) ==
    [i \in 1..Len(node.connections) |-> node.connections[i].end_label]

backward_star(G, end_label) ==
    SelectSeq(list_nodes(G), LAMBDA node : is_connected(G, node, end_label))

\* forward_star that leaves out the backward star of an undirected graph
forward_star_stored(G, start_label) == node_forward_star(G.node_map[start_label])

forward_star(G, start_label) ==
    IF G.directed
    THEN node_forward_star(G.node_map[start_label])
    ELSE node_forward_star(G.node_map[start_label]) \o backward_star(G, start_label)

\* the Edge start_label -> end_label (the callers below only use it on stored arcs)
EdgeOf(G, start_label, end_label) ==
    LET conns == G.node_map[start_label].connections
    IN  conns[IndexOf(conns, end_label)]

get_weight(G, start_label, end_label) == EdgeOf(G, start_label, end_label).weight

get_lbound(G, start_label, end_label) == EdgeOf(G, start_label, end_label).lbound

get_ubound(G, start_label, end_label) == EdgeOf(G, start_label, end_label).ubound

get_flux(G, start_label, end_label) == EdgeOf(G, start_label, end_label).flux

set_flux(G, start_label, end_label, flux) ==
    LET i == IndexOf(G.node_map[start_label].connections, end_label)
    IN  [G EXCEPT !.node_map[start_label].connections[i].flux = flux]

set_weight(G, start_label, end_label, weight) ==
    LET i == IndexOf(G.node_map[start_label].connections, end_label)
    IN  [G EXCEPT !.node_map[start_label].connections[i].weight = weight]

set_lbound(G, start_label, end_label, lbound) ==
    LET i == IndexOf(G.node_map[start_label].connections, end_label)
    IN  [G EXCEPT !.node_map[start_label].connections[i].lbound = lbound]

set_ubound(G, start_label, end_label, ubound) ==
    LET i == IndexOf(G.node_map[start_label].connections, end_label)
    IN  [G EXCEPT !.node_map[start_label].connections[i].ubound = ubound]

\* per-arc access that reports a missing arc as KeyError too
arc_access_raises_keyerror(G, start_label, end_label) ==
    IF start_label \notin Labels(G) THEN "KeyError"
    ELSE IF ~is_connected(G, start_label, end_label) THEN "KeyError"
    ELSE "none"

\* what a per-arc getter or setter raises: KeyError from self.node_map[start_label],
\* NoConnection from the Node method, "none" when the arc is stored
arc_access_raises(G, start_label, end_label) ==
    IF start_label \notin Labels(G) THEN "KeyError"
    ELSE IF ~is_connected(G, start_label, end_label) THEN "NoConnection"
    ELSE "none"

\* remove_connection that only fails on a missing start node
remove_connection_raises_node(G, start_label, end_label) ==
    IF start_label \notin Labels(G) THEN "KeyError" ELSE "none"

\* Graph.remove_connection raises KeyError from self.node_map[start_label] or from
\* del(self.connections[end_label])
remove_connection_raises(G, start_label, end_label) ==
    IF start_label \notin Labels(G) \/ ~is_connected(G, start_label, end_label)
    THEN "KeyError" ELSE "none"

remove_connection(G, start_label, end_label) ==
    [G EXCEPT !.node_map[start_label].connections =
        SelectSeq(@, LAMBDA e : e.end_label # end_label)]

set_node_value(G, label, value) == [G EXCEPT !.node_map[label].value = value]

-----------------------------------------------------------------------------
(* Frontier queues (src/src/_queue.py) *)

FifoQueue == [kind |-> "FifoQueue", elements |-> <<>>]

FifoQueue_put(q, item) == [q EXCEPT !.elements = Append(@, item)]

\* FifoQueue.get that takes the newest element
FifoQueue_get_last(q) ==
    [item |-> q.elements[Len(q.elements)],
     queue |-> [q EXCEPT !.elements = SubSeq(@, 1, Len(@) - 1)]]

\* FifoQueue.get on a non-empty queue: the item returned and the queue left
FifoQueue_get(q) == [item |-> Head(q.elements), queue |-> [q EXCEPT !.elements = Tail(@)]]

FifoQueue_is_in(q, item) == \E i \in 1..Len(q.elements) : q.elements[i] = item

\* tuple order that puts the later counter first among equal values
tuple_lt_latest(a, b) == IF a[1] = b[1] THEN a[2] > b[2] ELSE a[1][1] < b[1][1]

\* heapq keeps self.elements, a list of tuples (value, counter, item), as a binary
\* heap; positions are 0-based as in heapq, heap[pos] is the sequence entry pos + 1.
\* Tuples compare on value first, then on counter (counters never repeat).
tuple_lt(a, b) == IF a[1] = b[1] THEN a[2] < b[2] ELSE a[1][1] < b[1][1]

RECURSIVE siftdown(_, _, _, _)
siftdown(heap, startpos, pos, newitem) ==
    IF pos > startpos /\ tuple_lt(newitem, heap[((pos - 1) \div 2) + 1])
    THEN siftdown([heap EXCEPT ![pos + 1] = heap[((pos - 1) \div 2) + 1]],
                  startpos, (pos - 1) \div 2, newitem)
    ELSE [heap EXCEPT ![pos + 1] = newitem]

RECURSIVE siftup(_, _, _, _)
siftup(heap, startpos, pos, newitem) ==
    LET childpos == 2 * pos + 1
        rightpos == childpos + 1
        smaller == IF rightpos < Len(heap) /\ ~tuple_lt(heap[childpos + 1], heap[rightpos + 1])
                   THEN rightpos ELSE childpos
    IN  IF childpos < Len(heap)
        THEN siftup([heap EXCEPT ![pos + 1] = heap[smaller + 1]], startpos, smaller, newitem)
        ELSE siftdown([heap EXCEPT ![pos + 1] = newitem], startpos, pos, newitem)

heappush(heap, item) == siftdown(Append(heap, item), 0, Len(heap), item)

\* heappop on a non-empty heap: the tuple returned and the heap left
heappop(heap) ==
    LET lastelt == heap[Len(heap)]
        rest == SubSeq(heap, 1, Len(heap) - 1)
    IN  IF rest = <<>>
        THEN [item |-> lastelt, heap |-> rest]
        ELSE [item |-> rest[1], heap |-> siftup(rest, 0, 0, lastelt)]

PriorityQueue == [kind |-> "PriorityQueue", elements |-> <<>>, counter |-> 0]

PriorityQueue_put(q, item, value) ==
    [q EXCEPT !.elements = heappush(@, <<value, q.counter, item>>),
              !.counter = @ + 1]

\* PriorityQueue.get on a non-empty queue: the item returned and the queue left
PriorityQueue_get(q) ==
    LET popped == heappop(q.elements)
    IN  [item |-> popped.item[3], queue |-> [q EXCEPT !.elements = popped.heap]]

\* PriorityQueue.is_in that looks at t[1], the counter, where the code looks at t[2]
PriorityQueue_is_in_counter(q, item) == \E i \in 1..Len(q.elements) : q.elements[i][2] = item

PriorityQueue_is_in(q, item) == \E i \in 1..Len(q.elements) : q.elements[i][3] = item

\* the calls queue.put / queue.get / queue.is_in of graph.py, on either class
put(q, item, value) ==
    IF q.kind = "FifoQueue" THEN FifoQueue_put(q, item)
    ELSE PriorityQueue_put(q, item, value)

get(q) == IF q.kind = "FifoQueue" THEN FifoQueue_get(q) ELSE PriorityQueue_get(q)

is_in(q, item) ==
    IF q.kind = "FifoQueue" THEN FifoQueue_is_in(q, item)
    ELSE PriorityQueue_is_in(q, item)

\* get that lets the IndexError of an empty list through
get_raises_IndexError(q) == IF q.elements = <<>> THEN "IndexError" ELSE "none"

\* what get raises: FifoQueue.get tests "not self.elements", PriorityQueue.get
\* turns the IndexError of heappop into EmptyException
get_raises(q) == IF q.elements = <<>> THEN "EmptyException" ELSE "none"

qsize(q) == Len(q.elements)

\* graph.py calls queue.empty() (lines 480 and 585); no class of _queue.py
\* defines it.  It is modelled as "the queue holds no element", the loop
\* condition "while frontier non-empty" of the specification.
empty(q) == qsize(q) = 0

-----------------------------------------------------------------------------
(* Maximum flow: _flux_find_path, _push_flux, max_flux *)

\* one for-loop of _flux_find_path over the nodes of a star, from index i on;
\* st = [father, capacity, queue, found]; forward tells which of the two loops
\* it is.  raise FoundException leaves the loop at once.
\* flux_scan with "flux <= ubound" where the code has "flux < ubound"
RECURSIVE flux_scan_le(_, _, _, _, _, _, _, _)
flux_scan_le(G, start_label, end_label, current, star, i, forward, st) ==
    IF i > Len(star) \/ st.found THEN st
    ELSE
      LET node == star[i]
          residual == IF forward
                      THEN get_ubound(G, current, node)[1] - get_flux(G, current, node)[1]
                      ELSE get_flux(G, node, current)[1]
          usable == IF forward
                    THEN get_flux(G, current, node)[1] <= get_ubound(G, current, node)[1]
                    ELSE get_flux(G, node, current)[1] > 0
          take == node # start_label /\ st.father[node] = None /\ usable
          st1 == IF ~take THEN st
                 ELSE [father   |-> [st.father EXCEPT ![node] = Some(current)],
                       capacity |-> [st.capacity EXCEPT
                                        ![node] = Min(st.capacity[current], residual)],
                       queue    |-> IF node = end_label THEN st.queue
                                    ELSE FifoQueue_put(st.queue, node),
                       found    |-> node = end_label]
      IN  flux_scan_le(G, start_label, end_label, current, star, i + 1, forward, st1)

\* flux_scan that records the residual capacity of the last arc alone, where the
\* code takes the min with capacity[current]
RECURSIVE flux_scan_last_arc(_, _, _, _, _, _, _, _)
flux_scan_last_arc(G, start_label, end_label, current, star, i, forward, st) ==
    IF i > Len(star) \/ st.found THEN st
    ELSE
      LET node == star[i]
          residual == IF forward
                      THEN get_ubound(G, current, node)[1] - get_flux(G, current, node)[1]
                      ELSE get_flux(G, node, current)[1]
          usable == IF forward
                    THEN get_flux(G, current, node)[1] < get_ubound(G, current, node)[1]
                    ELSE get_flux(G, node, current)[1] > 0
          take == node # start_label /\ st.father[node] = None /\ usable
          st1 == IF ~take THEN st
                 ELSE [father   |-> [st.father EXCEPT ![node] = Some(current)],
                       capacity |-> [st.capacity EXCEPT ![node] = residual],
                       queue    |-> IF node = end_label THEN st.queue
                                    ELSE FifoQueue_put(st.queue, node),
                       found    |-> node = end_label]
      IN  flux_scan_last_arc(G, start_label, end_label, current, star, i + 1, forward, st1)

RECURSIVE flux_scan(_, _, _, _, _, _, _, _)
flux_scan(G, start_label, end_label, current, star, i, forward, st) ==
    IF i > Len(star) \/ st.found THEN st
    ELSE
      LET node == star[i]
          residual == IF forward
                      THEN get_ubound(G, current, node)[1] - get_flux(G, current, node)[1]
                      ELSE get_flux(G, node, current)[1]
          usable == IF forward
                    THEN get_flux(G, current, node)[1] < get_ubound(G, current, node)[1]
                    ELSE get_flux(G, node, current)[1] > 0
          take == node # start_label /\ st.father[node] = None /\ usable
          st1 == IF ~take THEN st
                 ELSE [father   |-> [st.father EXCEPT ![node] = Some(current)],
                       capacity |-> [st.capacity EXCEPT
                                        ![node] = Min(st.capacity[current], residual)],
                       queue    |-> IF node = end_label THEN st.queue
                                    ELSE FifoQueue_put(st.queue, node),
                       found    |-> node = end_label]
      IN  flux_scan(G, start_label, end_label, current, star, i + 1, forward, st1)

\* the except branch of _flux_find_path: the fathers from end_label back, reversed
RECURSIVE path_to(_, _)
path_to(fa, node) ==
    IF fa[node] = None THEN <<node>>
    ELSE Append(path_to(fa, fa[node][1]), node)

\* push_step that raises the flux of the reverse arc where the code lowers it
push_step_raise(G, start, end, c) ==
    IF is_connected(G, start, end)
    THEN set_flux(G, start, end, Some(get_flux(G, start, end)[1] + c))
    ELSE set_flux(G, end, start, Some(get_flux(G, end, start)[1] + c))

\* push_step that consumes the capacity of the arc where the code adds to its flux
push_step_capacity(G, start, end, c) ==
    IF is_connected(G, start, end)
    THEN set_ubound(set_flux(G, start, end, Some(get_flux(G, start, end)[1] + c)),
                    start, end, Some(get_ubound(G, start, end)[1] - c))
    ELSE set_flux(G, end, start, Some(get_flux(G, end, start)[1] - c))

push_step(G, start, end, c) ==
    IF is_connected(G, start, end)
    THEN set_flux(G, start, end, Some(get_flux(G, start, end)[1] + c))
    ELSE set_flux(G, end, start, Some(get_flux(G, end, start)[1] - c))

\* _push_flux with range(len(path) - 2): the last arc of the path is left out
RECURSIVE push_flux_short(_, _, _, _)
push_flux_short(G, p, c, i) ==
    IF i > Len(p) - 2 THEN G
    ELSE push_flux_short(push_step(G, p[i], p[i + 1], c), p, c, i + 1)

\* _push_flux from index i of the path on
RECURSIVE push_flux(_, _, _, _)
push_flux(G, p, c, i) ==
    IF i > Len(p) - 1 THEN G
    ELSE push_flux(push_step(G, p[i], p[i + 1], c), p, c, i + 1)

-----------------------------------------------------------------------------
(* The flow networks max_flux is run on *)

\* add_node(label) for every label of the sequence, as the scripts of graph.py do
RECURSIVE add_nodes(_, _, _)
add_nodes(G, labels, i) ==
    IF i > Len(labels) THEN G
    ELSE add_nodes(add_node(G, labels[i], None), labels, i + 1)

\* add_connection(u, v, flux=0, ubound=caps[i]) for every arc whose capacity is not None
RECURSIVE add_arcs(_, _, _, _)
add_arcs(G, arcs, caps, i) ==
    IF i > Len(arcs) THEN G
    ELSE add_arcs(IF caps[i] = None THEN G
                  ELSE add_connection(G, arcs[i][1], arcs[i][2],
                                      None, None, caps[i], Some(0)),
                  arcs, caps, i + 1)

Network(labels, arcs, caps) == add_arcs(add_nodes(Graph(TRUE), labels, 1), arcs, caps, 1)

\* the 6-node network of the commented example at the end of graph.py
ClassicArcs ==
    << <<1, 2>>, <<1, 3>>, <<2, 3>>, <<2, 4>>, <<2, 5>>, <<3, 4>>, <<4, 5>>, <<4, 6>>, <<5, 6>> >>

ClassicCaps == << <<5>>, <<9>>, <<7>>, <<4>>, <<3>>, <<10>>, <<2>>, <<8>>, <<10>> >>

Classic == Network(<<1, 2, 3, 4, 5, 6>>, ClassicArcs, ClassicCaps)

\* every network on nodes 1..4 over these arcs, each absent or with a capacity in 0..MaxCap
SmallArcs == << <<1, 2>>, <<1, 3>>, <<2, 3>>, <<2, 4>>, <<3, 2>>, <<3, 4>> >>

SmallNetworks ==
    {Network(<<1, 2, 3, 4>>, SmallArcs, caps) :
        caps \in [1..Len(SmallArcs) -> {None} \cup {Some(c) : c \in 0..MaxCap}]}

\* 6-node networks in which node 4 is reached both from 2 and from 3, with the
\* arc 4->2 back absent or present; cap picks one capacity in 0..MaxCap per
\* entry of SixCapOf (the two arcs of the chains 1->3->4 and 2->5->6 share one)
SixArcs ==
    << <<1, 2>>, <<1, 3>>, <<2, 4>>, <<2, 5>>, <<3, 4>>, <<4, 2>>, <<4, 6>>, <<5, 6>> >>

SixCapOf == <<1, 2, 3, 4, 2, 5, 6, 4>>

SixNetworks ==
    {Network(<<1, 2, 3, 4, 5, 6>>, SixArcs,
             [i \in 1..Len(SixArcs) |->
                 IF SixCapOf[i] = 5 THEN back ELSE Some(cap[SixCapOf[i]])]) :
        cap \in [{1, 2, 3, 4, 6} -> 0..MaxCap],
        back \in {None} \cup {Some(c) : c \in 0..MaxCap}}

FlowNetworks == {Classic} \cup SmallNetworks \cup SixNetworks

\* the sink is the largest label, the source is node 1
FlowInit ==
    /\ g \in FlowNetworks
    /\ g0 = g
    /\ args = [start |-> 1, end |-> Len(list_nodes(g))]
    /\ pc = "max_flux"
    /\ queue = FifoQueue
    /\ father = <<>>
    /\ capacity = <<>>
    /\ distance = <<>>
    /\ path = [nodes |-> <<>>, capacity |-> 0]
    /\ result = <<>>
    /\ raised = "none"
    /\ objects = <<>>
    /\ refs = <<>>
    /\ calls = 0
    /\ pending = <<>>

\* _flux_find_path up to its while loop
FluxFindPathBegin ==
    /\ pc = "max_flux"
    /\ queue' = FifoQueue_put(FifoQueue, args.start)
    /\ father' = [node \in Labels(g) |-> None]
    /\ capacity' = [node \in Labels(g) |-> Inf]
    /\ pc' = "flux_bfs"
    /\ UNCHANGED <<g, g0, args, distance, path, result, raised, objects, refs, calls, pending>>

\* one iteration of the while loop of _flux_find_path: both for-loops on current
FluxFindPathVisit ==
    /\ pc = "flux_bfs"
    /\ ~empty(queue)
    /\ LET got == FifoQueue_get(queue)
           current == got.item
           st0 == [father |-> father, capacity |-> capacity,
                   queue |-> got.queue, found |-> FALSE]
           st1 == flux_scan(g, args.start, args.end, current,
                            forward_star(g, current), 1, TRUE, st0)
           st2 == flux_scan(g, args.start, args.end, current,
                            backward_star(g, current), 1, FALSE, st1)
       IN  /\ father' = st2.father
           /\ capacity' = st2.capacity
           /\ queue' = st2.queue
           /\ IF st2.found
              THEN /\ path' = [nodes |-> path_to(st2.father, args.end),
                               capacity |-> st2.capacity[args.end]]
                   /\ pc' = "push"
              ELSE /\ path' = path
                   /\ pc' = "flux_bfs"
    /\ UNCHANGED <<g, g0, args, distance, result, raised, objects, refs, calls, pending>>

\* the queue ran empty: _flux_find_path raises NoConnection, max_flux catches it and returns
FluxNoPath ==
    /\ pc = "flux_bfs"
    /\ empty(queue)
    /\ pc' = "done"
    /\ UNCHANGED <<g, g0, args, queue, father, capacity, distance, path, result, raised,
                 objects, refs, calls, pending>>

\* _push_flux(path, capacity), then back to the top of while True
PushFlux ==
    /\ pc = "push"
    /\ g' = push_flux(g, path.nodes, path.capacity, 1)
    /\ pc' = "max_flux"
    /\ UNCHANGED <<g0, args, queue, father, capacity, distance, path, result, raised,
                 objects, refs, calls, pending>>

FlowNext == FluxFindPathBegin \/ FluxFindPathVisit \/ FluxNoPath \/ PushFlux

FlowSpec == FlowInit /\ [][FlowNext]_vars

-----------------------------------------------------------------------------
(* Measures of a flow *)

RECURSIVE SumSeq(_)
SumSeq(s) == IF s = <<>> THEN 0 ELSE Head(s) + SumSeq(Tail(s))

\* total flux on the arcs leaving node n
OutFlux(G, n) ==
    LET conns == G.node_map[n].connections
    IN  SumSeq([i \in 1..Len(conns) |-> conns[i].flux[1]])

\* total flux on the arcs arriving at node n
InFlux(G, n) ==
    LET from == backward_star(G, n)
    IN  SumSeq([i \in 1..Len(from) |-> get_flux(G, from[i], n)[1]])

NetOut(G, n) == OutFlux(G, n) - InFlux(G, n)

\* total capacity of a set of arcs <<u, v>> of G
RECURSIVE SumCap(_, _)
SumCap(G, A) ==
    IF A = {} THEN 0
    ELSE LET a == CHOOSE x \in A : TRUE
         IN  get_ubound(G, a[1], a[2])[1] + SumCap(G, A \ {a})

\* capacity of the cut (S, rest): the capacities of the arcs leaving S
CutCapacity(G, S) ==
    SumCap(G, {a \in S \X (Labels(G) \ S) : is_connected(G, a[1], a[2])})

MinCut(G, s, t) ==
    SetMin({CutCapacity(G, S \cup {s}) : S \in SUBSET (Labels(G) \ {s, t})})

\* u -> v is an arc of the residual graph of the current flow
ResidualArc(G, u, v) ==
    \/ is_connected(G, u, v) /\ get_flux(G, u, v)[1] < get_ubound(G, u, v)[1]
    \/ is_connected(G, v, u) /\ get_flux(G, v, u)[1] > 0

RECURSIVE ResidualReach(_, _)
ResidualReach(G, R) ==
    LET R1 == R \cup {v \in Labels(G) : \E u \in R : ResidualArc(G, u, v)}
    IN  IF R1 = R THEN R ELSE ResidualReach(G, R1)

-----------------------------------------------------------------------------
(* Claims on max_flux *)

\* C1: on the 6-node network of the example, max_flux(1, 6) terminates, and then
\* the flux leaving node 1 equals the flux arriving at node 6 and the capacity
\* of a minimum cut between 1 and 6.  (The run is deterministic: reaching
\* "done" from the example network, which the witness asks for, is termination.)
C1_ClassicMaxFlow ==
    (g0 = Classic /\ pc = "done") =>
        /\ OutFlux(g, 1) = InFlux(g, 6)
        /\ OutFlux(g, 1) = MinCut(g0, 1, 6)

C1_Witness == g0 = Classic /\ pc = "done" /\ OutFlux(g, 1) = 13 /\ InFlux(g, 6) = 13

\* C2: when max_flux has returned on a network that started with flux 0, every
\* node other than source and sink has as much flux coming in as going out.
C2_Conservation ==
    pc = "done" =>
        \A n \in Labels(g) \ {args.start, args.end} : InFlux(g, n) = OutFlux(g, n)

C2_Witness ==
    /\ pc = "done"
    /\ \E n \in Labels(g) \ {args.start, args.end} : OutFlux(g, n) > 0
    /\ \E n \in Labels(g) : \E m \in Labels(g) :
          is_connected(g, n, m) /\ get_flux(g, n, m)[1] < get_ubound(g, n, m)[1]

\* C3: when max_flux returns the flow is maximum: the sink cannot be reached in
\* the residual graph and the net flux leaving the source is the capacity of a
\* minimum cut, also with arcs in both directions between two nodes.
C3_FlowIsMaximum ==
    pc = "done" =>
        /\ args.end \notin ResidualReach(g, {args.start})
        /\ NetOut(g, args.start) = MinCut(g0, args.start, args.end)

\* what one search of _flux_find_path still has to do: every iteration of its
\* while loop takes one node off the queue and gives a father to each node it puts
SearchMeasure == 2 * Cardinality({n \in DOMAIN father : father[n] = None}) + qsize(queue)

\* C4: max_flux makes finitely many search-and-push rounds and returns: every
\* push strictly raises the net flux leaving the source, which never exceeds
\* the capacity of the arcs leaving the source, and every iteration of a search
\* lowers SearchMeasure.
C4_Terminates ==
    [][/\ pc = "push" => NetOut(g', args.start) > NetOut(g, args.start)
       /\ NetOut(g', args.start) <= CutCapacity(g0, {args.start})
       /\ (pc = "flux_bfs" /\ pc' = "flux_bfs") => SearchMeasure' < SearchMeasure
       /\ pc' = "flux_bfs" => SearchMeasure' >= 0]_vars

C4_Witness == pc = "done" /\ NetOut(g, args.start) >= 2 /\ g0 # Classic

\* the graph G with the flux of every edge blanked
WithoutFlux(G) ==
    [G EXCEPT !.node_map =
        [l \in Labels(G) |->
            [G.node_map[l] EXCEPT !.connections =
                [i \in 1..Len(G.node_map[l].connections) |->
                    [G.node_map[l].connections[i] EXCEPT !.flux = None]]]]]

\* C12: max_flux changes only flux fields: at every point of the call, and when
\* it has returned, the directed flag, the nodes, their values, the edges (in
\* their stored order) and each edge's weight, lbound and ubound are those the
\* graph had when the call started; the call hands back no value.
C12_OnlyFluxChanges ==
    /\ WithoutFlux(g) = WithoutFlux(g0)
    /\ result = <<>>
    /\ raised = "none"

C12_Witness ==
    /\ pc = "done"
    /\ \E u \in Labels(g), v \in Labels(g) :
          /\ is_connected(g, u, v)
          /\ get_flux(g, u, v) # get_flux(g0, u, v)
          /\ get_ubound(g, u, v) # None

\* C30: in a network whose arcs all start with 0 <= flux <= capacity, every
\* arc has 0 <= flux <= capacity after every push of max_flux, also when the
\* network has arcs in both directions between two nodes.
C30_FluxWithinCapacity ==
    \A u \in Labels(g), v \in Labels(g) :
        is_connected(g, u, v) =>
            /\ 0 <= get_flux(g, u, v)[1]
            /\ get_flux(g, u, v)[1] <= get_ubound(g, u, v)[1]

\* the residual capacity of the arc the search uses for the step u -> v: its
\* loop over the forward star runs first, so the stored arc u -> v when that
\* has spare capacity, else the arc v -> u, backwards
StepResidual(G, u, v) ==
    IF is_connected(G, u, v) /\ get_flux(G, u, v)[1] < get_ubound(G, u, v)[1]
    THEN get_ubound(G, u, v)[1] - get_flux(G, u, v)[1]
    ELSE get_flux(G, v, u)[1]

\* C31: whenever _flux_find_path returns (path, c), the path starts at the
\* source, ends at the sink, repeats no node, each of its steps is an arc of
\* the residual graph, c > 0, and c is the least residual capacity of the
\* arcs its steps use.
C31_AugmentingPath ==
    pc = "push" =>
        LET p == path.nodes
            c == path.capacity
        IN  /\ Len(p) >= 2
            /\ p[1] = args.start
            /\ p[Len(p)] = args.end
            /\ \A i \in 1..Len(p), j \in 1..Len(p) : i # j => p[i] # p[j]
            /\ \A i \in 1..(Len(p) - 1) : ResidualArc(g, p[i], p[i + 1])
            /\ c > 0
            /\ c = SetMin({StepResidual(g, p[i], p[i + 1]) : i \in 1..(Len(p) - 1)})

\* a returned path of three arcs or more with a backward step, whose steps do
\* not all have the same residual capacity
C31_Witness ==
    /\ pc = "push"
    /\ Len(path.nodes) >= 4
    /\ \E i \in 1..(Len(path.nodes) - 1) :
          /\ ~is_connected(g, path.nodes[i], path.nodes[i + 1])
          /\ get_flux(g, path.nodes[i + 1], path.nodes[i])[1] > 0
    /\ \E i \in 1..(Len(path.nodes) - 1) :
          StepResidual(g, path.nodes[i], path.nodes[i + 1]) > path.capacity

\* the number of arcs of a shortest path of the residual graph from a node of
\* R to t, R being the nodes reached with at most k arcs; Inf when there is none
RECURSIVE ResidualDistance(_, _, _, _)
ResidualDistance(G, R, t, k) ==
    IF t \in R THEN k
    ELSE LET R1 == R \cup {v \in Labels(G) : \E u \in R : ResidualArc(G, u, v)}
         IN  IF R1 = R THEN Inf ELSE ResidualDistance(G, R1, t, k + 1)

\* C32: whenever _flux_find_path returns a path, no path from the source to the
\* sink in the residual graph of the current flow has fewer arcs.
C32_ShortestAugmentingPath ==
    pc = "push" =>
        Len(path.nodes) - 1 = ResidualDistance(g, {args.start}, args.end, 0)

\* a path returned after a push, three arcs long, in a residual graph where the
\* source has another arc to leave by and the sink another arc to arrive by
C32_Witness ==
    /\ pc = "push"
    /\ g # g0
    /\ Len(path.nodes) = 4
    /\ \E n \in Labels(g) \ {path.nodes[2]} : ResidualArc(g, args.start, n)
    /\ \E n \in Labels(g) \ {path.nodes[3]} : ResidualArc(g, n, args.end)

-----------------------------------------------------------------------------
(* Shortest paths: _shortest_path, dijkstra, bellman *)

\* relax that puts a neighbour on the queue only the first time it is reached
RECURSIVE relax_first_only(_, _, _, _, _)
relax_first_only(G, node, star, i, st) ==
    IF i > Len(star) THEN st
    ELSE
      LET neighbour == star[i]
          w == get_weight(G, node, neighbour)
          connection_weight == IF w = None \/ w = Some(0) THEN 0 ELSE w[1]
          d == st.distance[node] + connection_weight
          st1 == IF d < st.distance[neighbour]
                 THEN [distance |-> [st.distance EXCEPT ![neighbour] = d],
                       father   |-> [st.father EXCEPT ![neighbour] = Some(node)],
                       queue    |-> IF st.distance[neighbour] = Inf
                                    THEN put(st.queue, neighbour, Some(d))
                                    ELSE st.queue]
                 ELSE st
      IN  relax_first_only(G, node, star, i + 1, st1)

\* relax that counts a negative weight as 0, as it does an absent one
RECURSIVE relax_clamped(_, _, _, _, _)
relax_clamped(G, node, star, i, st) ==
    IF i > Len(star) THEN st
    ELSE
      LET neighbour == star[i]
          w == get_weight(G, node, neighbour)
          connection_weight == IF w = None \/ w[1] <= 0 THEN 0 ELSE w[1]
          d == st.distance[node] + connection_weight
          st1 == IF d < st.distance[neighbour]
                 THEN [distance |-> [st.distance EXCEPT ![neighbour] = d],
                       father   |-> [st.father EXCEPT ![neighbour] = Some(node)],
                       queue    |-> IF ~is_in(st.queue, neighbour)
                                    THEN put(st.queue, neighbour, Some(d))
                                    ELSE st.queue]
                 ELSE st
      IN  relax_clamped(G, node, star, i + 1, st1)

\* relax that puts the neighbour on the queue at every improvement, without the
\* test queue.is_in(neighbour)
RECURSIVE relax_put_always(_, _, _, _, _)
relax_put_always(G, node, star, i, st) ==
    IF i > Len(star) THEN st
    ELSE
      LET neighbour == star[i]
          w == get_weight(G, node, neighbour)
          connection_weight == IF w = None \/ w = Some(0) THEN 0 ELSE w[1]
          d == st.distance[node] + connection_weight
          st1 == IF d < st.distance[neighbour]
                 THEN [distance |-> [st.distance EXCEPT ![neighbour] = d],
                       father   |-> [st.father EXCEPT ![neighbour] = Some(node)],
                       queue    |-> put(st.queue, neighbour, Some(d))]
                 ELSE st
      IN  relax_put_always(G, node, star, i + 1, st1)

\* relax with "<=" where the code has "<": an equal distance counts as an improvement
RECURSIVE relax_le(_, _, _, _, _)
relax_le(G, node, star, i, st) ==
    IF i > Len(star) THEN st
    ELSE
      LET neighbour == star[i]
          w == get_weight(G, node, neighbour)
          connection_weight == IF w = None \/ w = Some(0) THEN 0 ELSE w[1]
          d == st.distance[node] + connection_weight
          st1 == IF d <= st.distance[neighbour]
                 THEN [distance |-> [st.distance EXCEPT ![neighbour] = d],
                       father   |-> [st.father EXCEPT ![neighbour] = Some(node)],
                       queue    |-> IF ~is_in(st.queue, neighbour)
                                    THEN put(st.queue, neighbour, Some(d))
                                    ELSE st.queue]
                 ELSE st
      IN  relax_le(G, node, star, i + 1, st1)

\* the for-loop of _shortest_path over forward_star(node), from index i on;
\* st = [distance, father, queue]
RECURSIVE relax(_, _, _, _, _)
relax(G, node, star, i, st) ==
    IF i > Len(star) THEN st
    ELSE
      LET neighbour == star[i]
          w == get_weight(G, node, neighbour)
          connection_weight == IF w = None \/ w = Some(0) THEN 0 ELSE w[1]
          d == st.distance[node] + connection_weight
          st1 == IF d < st.distance[neighbour]
                 THEN [distance |-> [st.distance EXCEPT ![neighbour] = d],
                       father   |-> [st.father EXCEPT ![neighbour] = Some(node)],
                       queue    |-> IF ~is_in(st.queue, neighbour)
                                    THEN put(st.queue, neighbour, Some(d))
                                    ELSE st.queue]
                 ELSE st
      IN  relax(G, node, star, i + 1, st1)

\* the index of the first neighbour of star for which get_weight(node, neighbour)
\* raises, Len(star) + 1 when there is none
first_raising(G, node, star) ==
    IF \E i \in 1..Len(star) : arc_access_raises(G, node, star[i]) # "none"
    THEN SetMin({i \in 1..Len(star) : arc_access_raises(G, node, star[i]) # "none"})
    ELSE Len(star) + 1

\* the body of the while loop of _shortest_path for the node taken off the
\* queue: the for-loop over forward_star(node), which an exception of
\* get_weight leaves at once; st = [distance, father, queue]
visit(G, node, st) ==
    LET star == forward_star(G, node)
        stop == first_raising(G, node, star)
        st1 == relax(G, node, SubSeq(star, 1, stop - 1), 1, st)
    IN  [distance |-> st1.distance, father |-> st1.father, queue |-> st1.queue,
         raised |-> IF stop > Len(star) THEN "none"
                    ELSE arc_access_raises(G, node, star[stop])]

\* build_result without the test father[node] != None: every node gets its distance
RECURSIVE build_result_all(_, _, _, _, _)
build_result_all(res, nodes, i, fa, dist) ==
    IF i > Len(nodes) THEN res
    ELSE
      LET node == nodes[i]
          res1 == IF fa[node] # None
                  THEN add_connection(res, fa[node][1], node, None, None, None, None)
                  ELSE add_node(res, node, None)
      IN  build_result_all(set_node_value(res1, node, Some(dist[node])),
                           nodes, i + 1, fa, dist)

\* build_result with add_connection(node, father[node]): the edges point to the father
RECURSIVE build_result_reversed(_, _, _, _, _)
build_result_reversed(res, nodes, i, fa, dist) ==
    IF i > Len(nodes) THEN res
    ELSE
      LET node == nodes[i]
      IN  build_result_reversed(
              IF fa[node] # None
              THEN set_node_value(
                       add_connection(res, node, fa[node][1], None, None, None, None),
                       node, Some(dist[node]))
              ELSE res,
              nodes, i + 1, fa, dist)

\* the for-loop that fills the result graph, over list_nodes, from index i on
RECURSIVE build_result(_, _, _, _, _)
build_result(res, nodes, i, fa, dist) ==
    IF i > Len(nodes) THEN res
    ELSE
      LET node == nodes[i]
      IN  build_result(
              IF fa[node] # None
              THEN set_node_value(
                       add_connection(res, fa[node][1], node, None, None, None, None),
                       node, Some(dist[node]))
              ELSE res,
              nodes, i + 1, fa, dist)

\* the result graph of _shortest_path once the queue is empty
shortest_path_result(G, start_node, fa, dist) ==
    build_result(add_node(Graph(TRUE), start_node, Some(0)), list_nodes(G), 1, fa, dist)

-----------------------------------------------------------------------------
(* The weighted graphs dijkstra and bellman are run on *)

\* add_connection(u, v, weight=...) for every arc of the sequence that is present
RECURSIVE add_weighted(_, _, _, _)
add_weighted(G, arcs, ws, i) ==
    IF i > Len(arcs) THEN G
    ELSE add_weighted(IF ~ws[i].present THEN G
                      ELSE add_connection(G, arcs[i][1], arcs[i][2],
                                          ws[i].weight, None, None, None),
                      arcs, ws, i + 1)

Weighted(labels, arcs, ws) == add_weighted(add_nodes(Graph(TRUE), labels, 1), arcs, ws, 1)

\* the graph of the commented shortest-path example of graph.py
ExampleArcs ==
    << <<1, 2>>, <<1, 4>>, <<1, 5>>, <<1, 6>>, <<2, 3>>, <<2, 5>>, <<2, 6>>,
       <<3, 4>>, <<3, 6>>, <<4, 2>>, <<4, 5>>, <<5, 3>>, <<5, 6>> >>

ExampleWeights == <<2, 2, 4, 8, 5, -1, 5, 2, 1, -1, 1, 2, 4>>

Example ==
    Weighted(<<1, 2, 3, 4, 5, 6>>, ExampleArcs,
             [i \in 1..Len(ExampleArcs) |-> [present |-> TRUE, weight |-> Some(ExampleWeights[i])]])

ArcChoices ==
    {[present |-> FALSE, weight |-> None]} \cup
    {[present |-> TRUE, weight |-> w] :
        w \in {None} \cup {Some(x) : x \in (-NegWeight..-1) \cup (1..MaxWeight)}}

\* weight of the stored arc u -> v as the relaxation counts it
ArcWeight(G, u, v) == IF get_weight(G, u, v) = None THEN 0 ELSE get_weight(G, u, v)[1]

\* the distance a set of pairs <<node, distance>> gives to v
DistOf(D, v) == (CHOOSE p \in D : p[1] = v)[2]

\* WalkDist(G, root, k): the pairs <<v, d>>, d the least total weight of a walk of
\* at most k arcs from root to v, Inf when there is none (computed round by
\* round, without a queue)
RECURSIVE WalkDist(_, _, _)
WalkDist(G, root, k) ==
    IF k = 0 THEN {<<v, IF v = root THEN 0 ELSE Inf>> : v \in Labels(G)}
    ELSE LET D == WalkDist(G, root, k - 1)
         IN  {<<v, SetMin({DistOf(D, v)} \cup
                          {DistOf(D, u) + ArcWeight(G, u, v) :
                              u \in {x \in Labels(G) :
                                        is_connected(G, x, v) /\ DistOf(D, x) < Inf}})>> :
                 v \in Labels(G)}

\* without a negative cycle a shortest walk has fewer arcs than there are nodes
TrueDistance(G, root) == WalkDist(G, root, Cardinality(Labels(G)) - 1)

NegativeCycle(G, root) ==
    LET D == TrueDistance(G, root)
    IN  \E a \in {x \in Labels(G) \X Labels(G) : is_connected(G, x[1], x[2])} :
            /\ DistOf(D, a[1]) < Inf
            /\ DistOf(D, a[1]) + ArcWeight(G, a[1], a[2]) < DistOf(D, a[2])

Reachable(G, root) == {p[1] : p \in {q \in TrueDistance(G, root) : q[2] < Inf}}

Arcs(G) == {a \in Labels(G) \X Labels(G) : is_connected(G, a[1], a[2])}

HasNegativeWeight(G) == \E a \in Arcs(G) : ArcWeight(G, a[1], a[2]) < 0

\* every graph on nodes 1..4 over the arcs of SmallArcs, each absent or with a
\* weight of ArcChoices, that has no negative cycle (on which the loop never ends)
WeightedGraphs ==
    {Example} \cup
    {G \in {Weighted(<<1, 2, 3, 4>>, SmallArcs, ws) : ws \in [1..Len(SmallArcs) -> ArcChoices]} :
        ~NegativeCycle(G, 1)}

\* the script of graph.py runs dijkstra(source) and then bellman(source), source 1
PathInit ==
    /\ g \in WeightedGraphs
    /\ g0 = g
    /\ args = [start |-> 1, alg |-> "dijkstra"]
    /\ pc = "sp_call"
    /\ queue = FifoQueue
    /\ father = <<>>
    /\ capacity = <<>>
    /\ distance = <<>>
    /\ path = [nodes |-> <<>>, capacity |-> 0]
    /\ result = [dijkstra |-> None, bellman |-> None]
    /\ raised = "none"
    /\ objects = <<>>
    /\ refs = <<>>
    /\ calls = 0
    /\ pending = <<>>

\* dijkstra / bellman create the queue; _shortest_path up to its while loop
ShortestPathBegin ==
    /\ pc = "sp_call"
    /\ distance' = [node \in Labels(g) |-> IF node = args.start THEN 0 ELSE Inf]
    /\ father' = [node \in Labels(g) |-> None]
    /\ queue' = put(IF args.alg = "dijkstra" THEN PriorityQueue ELSE FifoQueue,
                    args.start, Some(0))
    /\ pc' = "sp_loop"
    /\ UNCHANGED <<g, g0, args, capacity, path, result, raised, objects, refs, calls, pending>>

\* one iteration of the while loop of _shortest_path; an exception ends the
\* call and the script
ShortestPathVisit ==
    /\ pc = "sp_loop"
    /\ ~empty(queue)
    /\ LET got == get(queue)
           st == visit(g, got.item,
                       [distance |-> distance, father |-> father, queue |-> got.queue])
       IN  /\ distance' = st.distance
           /\ father' = st.father
           /\ queue' = st.queue
           /\ raised' = st.raised
           /\ pc' = IF st.raised = "none" THEN "sp_loop" ELSE "raised"
    /\ UNCHANGED <<g, g0, args, capacity, path, result, objects, refs, calls, pending>>

\* the queue is empty: _shortest_path builds and returns the result graph
ShortestPathReturn ==
    /\ pc = "sp_loop"
    /\ empty(queue)
    /\ result' = [result EXCEPT
                     ![args.alg] = shortest_path_result(g, args.start, father, distance)]
    /\ IF args.alg = "dijkstra"
       THEN /\ args' = [args EXCEPT !.alg = "bellman"]
            /\ pc' = "sp_call"
       ELSE /\ args' = args
            /\ pc' = "done"
    /\ UNCHANGED <<g, g0, queue, father, capacity, distance, path, raised,
                 objects, refs, calls, pending>>

PathNext == ShortestPathBegin \/ ShortestPathVisit \/ ShortestPathReturn

PathSpec == PathInit /\ [][PathNext]_vars

-----------------------------------------------------------------------------
(* Claims on dijkstra and bellman *)

\* _shortest_path has just returned: father and distance are those of the call
\* whose result LastResult is
JustReturned == pc = "done" \/ (pc = "sp_call" /\ args.alg = "bellman")

LastResult == IF pc = "done" THEN result.bellman ELSE result.dijkstra

\* C5: on a graph with a negative weight and no negative cycle reachable from
\* the root, bellman gives every node reachable from the root the least total
\* weight of a path from the root to it (an absent weight counting as 0).
C5_BellmanNegative ==
    (pc = "done" /\ HasNegativeWeight(g)) =>
        \A v \in Reachable(g, args.start) :
            /\ v \in Labels(result.bellman)
            /\ get_node_value(result.bellman, v) =
                   Some(DistOf(TrueDistance(g, args.start), v))

C5_Witness ==
    /\ pc = "done"
    /\ \E a \in Arcs(g) :
          /\ ArcWeight(g, a[1], a[2]) < 0
          /\ is_connected(result.bellman, a[1], a[2])
    /\ \E v \in Labels(result.bellman) : get_node_value(result.bellman, v)[1] < 0

\* C6 as stated: on the example graph bellman(1) computes distance 3 for node 5.
C6_Original ==
    (g = Example /\ pc = "done") => get_node_value(result.bellman, 5) = Some(3)

\* C6 (amended): on the example graph bellman(1) computes distance 0 for node 5
\* (the path 1 -> 4 -> 2 -> 5 weighs 2 - 1 - 1); 3 is the distance of node 6.
C6_ExampleDistance ==
    (g = Example /\ pc = "done") =>
        /\ get_node_value(result.bellman, 5) = Some(0)
        /\ get_node_value(result.bellman, 6) = Some(3)

C6_Witness == g = Example /\ pc = "done" /\ 5 \in Labels(result.bellman)

\* C7: on a graph whose weights are all non-negative, dijkstra(s) and bellman(s)
\* return results with the same nodes and the same value on every node.
C7_SameDistances ==
    (pc = "done" /\ ~HasNegativeWeight(g)) =>
        /\ Labels(result.dijkstra) = Labels(result.bellman)
        /\ \A v \in Labels(result.bellman) :
              get_node_value(result.dijkstra, v) = get_node_value(result.bellman, v)

C7_Witness ==
    /\ pc = "done"
    /\ ~HasNegativeWeight(g)
    /\ Cardinality(Labels(result.bellman)) = 4
    /\ \E v \in Labels(result.bellman) : get_node_value(result.bellman, v)[1] >= 3
    /\ result.dijkstra # result.bellman

\* C8: the result of dijkstra / bellman holds exactly the nodes reachable from
\* the root, the root included; no node of it has an infinite value.
C8_ExactlyReachable ==
    JustReturned =>
        /\ Labels(LastResult) = Reachable(g, args.start)
        /\ \A v \in Labels(LastResult) :
              get_node_value(LastResult, v) # None /\ get_node_value(LastResult, v)[1] < Inf

C8_Witness ==
    /\ JustReturned
    /\ Labels(LastResult) # Labels(g)
    /\ Cardinality(Labels(LastResult)) >= 2

\* C9: the edges of the result are exactly the predecessor relationships: the
\* root has value 0 and no incoming edge, every other node v of the result has
\* one incoming edge, from father[v], and its value is the final distance[v].
C9_PredecessorTree ==
    JustReturned =>
        /\ get_node_value(LastResult, args.start) = Some(0)
        /\ \A u \in Labels(LastResult) : ~is_connected(LastResult, u, args.start)
        /\ \A v \in Labels(LastResult) \ {args.start} :
              /\ father[v] # None
              /\ {u \in Labels(LastResult) : is_connected(LastResult, u, v)} = {father[v][1]}
              /\ get_node_value(LastResult, v) = Some(distance[v])
        /\ Arcs(LastResult) = {<<father[v][1], v>> : v \in {x \in Labels(g) : father[x] # None}}

C9_Witness ==
    /\ JustReturned
    /\ Cardinality(Arcs(LastResult)) = 3
    /\ \E v \in Labels(g) : father[v] # None /\ father[v] # Some(args.start)


\* the nodes _shortest_path has taken off the queue: a node gets a finite
\* distance only together with a place in the queue (unless it has one already)
Dequeued(n) == distance[n] < Inf /\ ~is_in(queue, n)

\* C29: on a graph without negative weights, once dijkstra has taken a node off
\* the priority queue, the distance of the node is never lowered and the node
\* is never put on the queue again.
C29_NoReimprove ==
    [][(pc = "sp_loop" /\ args.alg = "dijkstra" /\ ~HasNegativeWeight(g)) =>
          \A n \in Labels(g) :
              Dequeued(n) => (distance'[n] = distance[n] /\ ~is_in(queue', n))]_vars

\* the items the frontier holds, in stored order
FrontierItems(q) ==
    [i \in 1..Len(q.elements) |->
        IF q.kind = "FifoQueue" THEN q.elements[i] ELSE q.elements[i][3]]

Occurrences(q, n) ==
    Cardinality({i \in 1..Len(q.elements) : FrontierItems(q)[i] = n})

\* C33: in dijkstra and in bellman a relaxation puts a node on the frontier
\* only when the node is not on it: after every step the frontier holds each
\* node at most once, a node enters it only with a lowered distance, and a
\* node that had been taken off it is on it again when its distance is lowered.
C33_FrontierOnce ==
    [][(pc = "sp_loop" /\ pc' = "sp_loop") =>
          \A n \in Labels(g) :
              /\ Occurrences(queue', n) <= 1
              /\ (is_in(queue', n) /\ ~is_in(queue, n)) => distance'[n] < distance[n]
              /\ (Dequeued(n) /\ distance'[n] < distance[n]) => is_in(queue', n)]_vars

\* a node that is the father of another (so it was taken off the frontier and
\* its star relaxed) is on the frontier again, beside another node
C33_Witness ==
    /\ pc = "sp_loop"
    /\ qsize(queue) >= 2
    /\ \E n \in Labels(g) \ {args.start} :
          /\ is_in(queue, n)
          /\ \E m \in Labels(g) : father[m] = Some(n)

\* C34: on a directed graph with integer weights, some negative, and no
\* negative cycle reachable from the root, the loop of bellman ends: no
\* distance rises or goes below the least weight of a path from the root, and
\* every iteration either lowers a distance or leaves them all and shortens
\* the frontier by one; with an empty frontier the call returns.
C34_BellmanTerminates ==
    [][(pc = "sp_loop" /\ args.alg = "bellman") =>
          /\ \A D \in {TrueDistance(g, args.start)} :
                \A n \in Labels(g) :
                    /\ distance'[n] <= distance[n]
                    /\ distance'[n] >= DistOf(D, n)
          /\ pc' = "sp_loop" =>
                \/ \E n \in Labels(g) : distance'[n] < distance[n]
                \/ distance' = distance /\ qsize(queue') = qsize(queue) - 1
          /\ empty(queue) => pc' = "done"]_vars

\* bellman has returned on a graph with a negative weight and a cycle
\* reachable from the root, after lowering a distance below zero
C34_Witness ==
    /\ pc = "done"
    /\ HasNegativeWeight(g)
    /\ \E a \in Arcs(g) :
          /\ is_connected(g, a[2], a[1])
          /\ a[1] \in Reachable(g, args.start)
    /\ \E n \in Labels(g) : distance[n] < 0

-----------------------------------------------------------------------------
(* The public mutations of a Graph, called in any order *)

GraphLabels == {1, 2}

NodeValues == {None, Some(7), Some(8)}

WeightValues == {None, Some(1)}

LboundValues == {None, Some(1)}

UboundValues == {None, Some(-1)}

FluxValues == {None, Some(1)}

\* g0 is the graph before the last call, args the call, raised what it raised,
\* result what it returned
GraphInit ==
    /\ g \in {Graph(TRUE), Graph(FALSE)}
    /\ g0 = g
    /\ args = [op |-> "Graph"]
    /\ pc = "idle"
    /\ queue = FifoQueue
    /\ father = <<>>
    /\ capacity = <<>>
    /\ distance = <<>>
    /\ path = [nodes |-> <<>>, capacity |-> 0]
    /\ result = <<>>
    /\ raised = "none"
    /\ objects = <<>>
    /\ refs = <<>>
    /\ calls = 0
    /\ pending = <<>>

AddNode ==
    \E label \in GraphLabels, value \in NodeValues :
        /\ args' = [op |-> "add_node", label |-> label, value |-> value]
        /\ g0' = g
        /\ g' = add_node(g, label, value)
        /\ raised' = IF add_node_raises(g', label, value) THEN "AttributeError" ELSE "none"
        /\ result' = None
        /\ UNCHANGED <<pc, queue, father, capacity, distance, path, objects, refs, calls, pending>>

AddConnection ==
    \E start_label \in GraphLabels : \E end_label \in GraphLabels \ {start_label},
       weight \in WeightValues, lbound \in LboundValues,
       ubound \in UboundValues, flux \in FluxValues :
        /\ args' = [op |-> "add_connection", start_label |-> start_label,
                    end_label |-> end_label, weight |-> weight, lbound |-> lbound,
                    ubound |-> ubound, flux |-> flux]
        /\ g0' = g
        /\ g' = add_connection(g, start_label, end_label, weight, lbound, ubound, flux)
        /\ raised' = "none"
        /\ result' = None
        /\ UNCHANGED <<pc, queue, father, capacity, distance, path, objects, refs, calls, pending>>

RemoveConnection ==
    \E start_label \in GraphLabels : \E end_label \in GraphLabels \ {start_label} :
        /\ args' = [op |-> "remove_connection", start_label |-> start_label,
                    end_label |-> end_label]
        /\ g0' = g
        /\ raised' = remove_connection_raises(g, start_label, end_label)
        /\ g' = IF raised' = "none" THEN remove_connection(g, start_label, end_label) ELSE g
        /\ result' = None
        /\ UNCHANGED <<pc, queue, father, capacity, distance, path, objects, refs, calls, pending>>

\* the per-arc getters: what the call returns is in result
GetWeight ==
    \E start_label \in GraphLabels : \E end_label \in GraphLabels \ {start_label} :
        /\ args' = [op |-> "get_weight", start_label |-> start_label, end_label |-> end_label]
        /\ g0' = g
        /\ raised' = arc_access_raises(g, start_label, end_label)
        /\ result' = IF raised' = "none" THEN get_weight(g, start_label, end_label) ELSE None
        /\ UNCHANGED <<pc, g, queue, father, capacity, distance, path,
                     objects, refs, calls, pending>>

GetLbound ==
    \E start_label \in GraphLabels : \E end_label \in GraphLabels \ {start_label} :
        /\ args' = [op |-> "get_lbound", start_label |-> start_label, end_label |-> end_label]
        /\ g0' = g
        /\ raised' = arc_access_raises(g, start_label, end_label)
        /\ result' = IF raised' = "none" THEN get_lbound(g, start_label, end_label) ELSE None
        /\ UNCHANGED <<pc, g, queue, father, capacity, distance, path,
                     objects, refs, calls, pending>>

GetUbound ==
    \E start_label \in GraphLabels : \E end_label \in GraphLabels \ {start_label} :
        /\ args' = [op |-> "get_ubound", start_label |-> start_label, end_label |-> end_label]
        /\ g0' = g
        /\ raised' = arc_access_raises(g, start_label, end_label)
        /\ result' = IF raised' = "none" THEN get_ubound(g, start_label, end_label) ELSE None
        /\ UNCHANGED <<pc, g, queue, father, capacity, distance, path,
                     objects, refs, calls, pending>>

GetFlux ==
    \E start_label \in GraphLabels : \E end_label \in GraphLabels \ {start_label} :
        /\ args' = [op |-> "get_flux", start_label |-> start_label, end_label |-> end_label]
        /\ g0' = g
        /\ raised' = arc_access_raises(g, start_label, end_label)
        /\ result' = IF raised' = "none" THEN get_flux(g, start_label, end_label) ELSE None
        /\ UNCHANGED <<pc, g, queue, father, capacity, distance, path,
                     objects, refs, calls, pending>>

\* the per-arc setters
SetWeight ==
    \E start_label \in GraphLabels : \E end_label \in GraphLabels \ {start_label},
       weight \in WeightValues :
        /\ args' = [op |-> "set_weight", start_label |-> start_label, end_label |-> end_label,
                    value |-> weight]
        /\ g0' = g
        /\ raised' = arc_access_raises(g, start_label, end_label)
        /\ g' = IF raised' = "none" THEN set_weight(g, start_label, end_label, weight) ELSE g
        /\ result' = None
        /\ UNCHANGED <<pc, queue, father, capacity, distance, path, objects, refs, calls, pending>>

SetLbound ==
    \E start_label \in GraphLabels : \E end_label \in GraphLabels \ {start_label},
       lbound \in LboundValues :
        /\ args' = [op |-> "set_lbound", start_label |-> start_label, end_label |-> end_label,
                    value |-> lbound]
        /\ g0' = g
        /\ raised' = arc_access_raises(g, start_label, end_label)
        /\ g' = IF raised' = "none" THEN set_lbound(g, start_label, end_label, lbound) ELSE g
        /\ result' = None
        /\ UNCHANGED <<pc, queue, father, capacity, distance, path, objects, refs, calls, pending>>

SetUbound ==
    \E start_label \in GraphLabels : \E end_label \in GraphLabels \ {start_label},
       ubound \in UboundValues :
        /\ args' = [op |-> "set_ubound", start_label |-> start_label, end_label |-> end_label,
                    value |-> ubound]
        /\ g0' = g
        /\ raised' = arc_access_raises(g, start_label, end_label)
        /\ g' = IF raised' = "none" THEN set_ubound(g, start_label, end_label, ubound) ELSE g
        /\ result' = None
        /\ UNCHANGED <<pc, queue, father, capacity, distance, path, objects, refs, calls, pending>>

SetFlux ==
    \E start_label \in GraphLabels : \E end_label \in GraphLabels \ {start_label},
       flux \in FluxValues :
        /\ args' = [op |-> "set_flux", start_label |-> start_label, end_label |-> end_label,
                    value |-> flux]
        /\ g0' = g
        /\ raised' = arc_access_raises(g, start_label, end_label)
        /\ g' = IF raised' = "none" THEN set_flux(g, start_label, end_label, flux) ELSE g
        /\ result' = None
        /\ UNCHANGED <<pc, queue, father, capacity, distance, path, objects, refs, calls, pending>>

GraphNext ==
    \/ AddNode \/ AddConnection \/ RemoveConnection
    \/ GetWeight \/ GetLbound \/ GetUbound \/ GetFlux
    \/ SetWeight \/ SetLbound \/ SetUbound \/ SetFlux

GraphSpec == GraphInit /\ [][GraphNext]_vars

\* C10: after any sequence of public mutations every edge has capacity >= 0 when
\* capacity is set, lbound >= 0 when lbound is set, and lbound <= capacity when
\* both are set (a mutation that would break this being rejected).
C10_EdgeInvariant ==
    \A a \in Arcs(g) :
        LET e == EdgeOf(g, a[1], a[2])
        IN  /\ e.ubound # None => e.ubound[1] >= 0
            /\ e.lbound # None => e.lbound[1] >= 0
            /\ (e.lbound # None /\ e.ubound # None) => e.lbound[1] <= e.ubound[1]

\* the elements of a star, as a set
Members(star) == {star[i] : i \in 1..Len(star)}

\* the arcs of G other than start_label -> end_label hold the Edge they hold in G0
OtherArcsKept(G0, G, start_label, end_label) ==
    /\ Arcs(G) \ {<<start_label, end_label>>} = Arcs(G0) \ {<<start_label, end_label>>}
    /\ \A a \in Arcs(G0) \ {<<start_label, end_label>>} :
          EdgeOf(G, a[1], a[2]) = EdgeOf(G0, a[1], a[2])

\* C13: on a directed graph add_connection(start, end, weight, lbound, ubound,
\* flux) returns normally with both endpoints present, a new endpoint holding
\* value None and an existing one its old value, the arc start->end holding
\* exactly the supplied attributes (None where none was supplied, also when the
\* arc existed before), and every other node and arc as before.
C13_AddConnection ==
    (args.op = "add_connection" /\ g0.directed) =>
        LET s == args.start_label
            e == args.end_label
        IN  /\ raised = "none"
            /\ g.directed
            /\ Labels(g) = Labels(g0) \cup {s, e}
            /\ \A l \in Labels(g) :
                  get_node_value(g, l) =
                      IF l \in Labels(g0) THEN get_node_value(g0, l) ELSE None
            /\ is_connected(g, s, e)
            /\ EdgeOf(g, s, e) = Edge(e, args.weight, args.lbound, args.ubound, args.flux)
            /\ Arcs(g) = Arcs(g0) \cup {<<s, e>>}
            /\ OtherArcsKept(g0, g, s, e)

\* an arc with attributes is replaced by a call that leaves some of them out,
\* next to an endpoint that holds a value and another arc
C13_Witness ==
    /\ args.op = "add_connection" /\ g0.directed
    /\ is_connected(g0, args.start_label, args.end_label)
    /\ is_connected(g0, args.end_label, args.start_label)
    /\ get_weight(g0, args.start_label, args.end_label) # None
    /\ args.weight = None /\ args.flux # None
    /\ get_node_value(g0, args.start_label) # None

\* C14: in an undirected graph every stored arc (a, b) has a <= b, so a pair of
\* labels has at most one stored arc, kept under the smaller label.
C14_Canonical ==
    ~g.directed => \A a \in Arcs(g) : a[1] <= a[2]

C14_Witness ==
    /\ ~g.directed
    /\ args.op = "add_connection" /\ args.start_label > args.end_label
    /\ Arcs(g) = {<<args.end_label, args.start_label>>}
    /\ Arcs(g0) = {}

\* C15: in an undirected graph is_connected(a, b) = is_connected(b, a) for all
\* labels a and b.
C15_Symmetric ==
    ~g.directed =>
        \A a \in GraphLabels, b \in GraphLabels :
            is_connected(g, a, b) = is_connected(g, b, a)

\* C16: in an undirected graph, for all nodes u and v, v occurs in
\* forward_star(u) exactly when an arc between u and v is stored under u or
\* under v, hence exactly when u occurs in forward_star(v).
C16_SymmetricStar ==
    ~g.directed =>
        \A u \in Labels(g), v \in Labels(g) :
            /\ v \in Members(forward_star(g, u))
                  <=> (is_connected(g, u, v) \/ is_connected(g, v, u))
            /\ v \in Members(forward_star(g, u)) <=> u \in Members(forward_star(g, v))

C16_Witness ==
    /\ ~g.directed
    /\ is_connected(g, 1, 2)
    /\ 1 \in Members(forward_star(g, 2))
    /\ 2 \in Members(forward_star(g, 1))

\* C17: remove_connection(start, end) raises KeyError and leaves the graph as it
\* was when start is absent, end is absent or no arc start->end is stored;
\* otherwise it returns normally, the arc start->end is gone and every node,
\* node value and other arc is as before.
C17_RemoveConnection ==
    args.op = "remove_connection" =>
        LET s == args.start_label
            e == args.end_label
        IN  IF s \notin Labels(g0) \/ e \notin Labels(g0) \/ ~is_connected(g0, s, e)
            THEN raised = "KeyError" /\ g = g0
            ELSE /\ raised = "none"
                 /\ g.directed = g0.directed
                 /\ Labels(g) = Labels(g0)
                 /\ \A l \in Labels(g) : get_node_value(g, l) = get_node_value(g0, l)
                 /\ ~is_connected(g, s, e)
                 /\ Arcs(g) = Arcs(g0) \ {<<s, e>>}
                 /\ OtherArcsKept(g0, g, s, e)

C17_Witness ==
    /\ args.op = "remove_connection"
    /\ raised = "none"
    /\ Arcs(g) = {<<args.end_label, args.start_label>>}
    /\ Cardinality(Arcs(g0)) = 2

\* a second reachable case of C17: the call failed on a node without that arc
C17_FailureReached ==
    /\ args.op = "remove_connection"
    /\ raised = "KeyError"
    /\ args.start_label \in Labels(g0)

ArcAccessOps ==
    {"get_weight", "get_lbound", "get_ubound", "get_flux",
     "set_weight", "set_lbound", "set_ubound", "set_flux"}

\* C18: a per-arc getter or setter called with (start, end) raises KeyError
\* when start is not a node and NoConnection when start is a node without an
\* arc to end, and leaves the graph as it was in both cases.
C18_ArcAccessErrors ==
    args.op \in ArcAccessOps =>
        /\ args.start_label \notin Labels(g0) => (raised = "KeyError" /\ g = g0)
        /\ (args.start_label \in Labels(g0)
              /\ ~is_connected(g0, args.start_label, args.end_label))
             => (raised = "NoConnection" /\ g = g0)

C18_Witness ==
    /\ args.op = "set_flux"
    /\ raised = "NoConnection"
    /\ args.start_label \in Labels(g0)
    /\ Arcs(g0) # {}

\* C19: add_node(label, v) on a node that holds a value other than None returns
\* normally and leaves the whole graph as it was; and a second add_node(label, v)
\* after a first one leaves the graph the first one left.
C19_AddNodeIdempotent ==
    args.op = "add_node" =>
        /\ (args.label \in Labels(g0) /\ get_node_value(g0, args.label) # None)
              => (g = g0 /\ raised = "none")
        /\ add_node(g, args.label, args.value) = g

C19_Witness ==
    /\ args.op = "add_node"
    /\ args.label \in Labels(g0)
    /\ get_node_value(g0, args.label) # None
    /\ args.value # None
    /\ Arcs(g0) # {}

\* C20: add_node(label, v) with v other than None on a node that exists and
\* holds None returns normally and leaves the node holding v, its arcs unchanged.
C20_AddNodeFillsValue ==
    (/\ args.op = "add_node"
     /\ args.label \in Labels(g0)
     /\ get_node_value(g0, args.label) = None
     /\ args.value # None)
    => /\ raised = "none"
       /\ get_node_value(g, args.label) = args.value
       /\ g.node_map[args.label].connections = g0.node_map[args.label].connections

\* the labels a call adds as a node or as an endpoint of a connection
LabelsAdded(call) ==
    IF call.op = "add_node" THEN {call.label}
    ELSE IF call.op = "add_connection" THEN {call.start_label, call.end_label}
    ELSE {}

\* C21: after any sequence of add_node, add_connection and remove_connection
\* calls (and per-arc accesses) list_nodes() yields the labels added so far as
\* a node or as an endpoint, each once, in strictly ascending order: every call
\* adds exactly its labels to those listed before it, and removes none.
C21_ListNodes ==
    LET nodes == list_nodes(g)
    IN  /\ \A i \in 1..Len(nodes), j \in 1..Len(nodes) : i < j => nodes[i] < nodes[j]
        /\ Members(nodes) = Members(list_nodes(g0)) \cup LabelsAdded(args)

C21_Witness ==
    /\ args.op = "add_node" /\ args.label = 1
    /\ list_nodes(g0) = <<2>>
    /\ list_nodes(g) = <<1, 2>>

-----------------------------------------------------------------------------
(* max_flux as one call: the loop of max_flux over _flux_find_path and _push_flux *)

\* a call of max_flux that has not returned after MaxRounds pushes is not followed further
MaxRounds == 3

\* the while loop of _flux_find_path, from the search state st on
RECURSIVE flux_search(_, _, _, _)
flux_search(G, start_label, end_label, st) ==
    IF st.found \/ empty(st.queue) THEN st
    ELSE LET got == FifoQueue_get(st.queue)
             current == got.item
             st0 == [st EXCEPT !.queue = got.queue]
             st1 == flux_scan(G, start_label, end_label, current,
                              forward_star(G, current), 1, TRUE, st0)
             st2 == flux_scan(G, start_label, end_label, current,
                              backward_star(G, current), 1, FALSE, st1)
         IN  flux_search(G, start_label, end_label, st2)

\* _flux_find_path: found is FALSE where the code raises NoConnection
flux_find_path(G, start_label, end_label) ==
    LET st == flux_search(G, start_label, end_label,
                          [father |-> [node \in Labels(G) |-> None],
                           capacity |-> [node \in Labels(G) |-> Inf],
                           queue |-> FifoQueue_put(FifoQueue, start_label),
                           found |-> FALSE])
    IN  IF st.found
        THEN [found |-> TRUE, nodes |-> path_to(st.father, end_label),
              capacity |-> st.capacity[end_label]]
        ELSE [found |-> FALSE, nodes |-> <<>>, capacity |-> 0]

\* max_flux: the graph it leaves, and whether it returned within rounds pushes
RECURSIVE max_flux(_, _, _, _)
max_flux(G, start, end, rounds) ==
    LET p == flux_find_path(G, start, end)
    IN  IF ~p.found THEN [returned |-> TRUE, graph |-> G]
        ELSE IF rounds = 0 THEN [returned |-> FALSE, graph |-> G]
        ELSE max_flux(push_flux(G, p.nodes, p.capacity, 1), start, end, rounds - 1)

-----------------------------------------------------------------------------
(* Graph, Node and Edge as objects: copy and the mutations of a graph and its  *)
(* copy.  objects[a] is the object at address a: a Graph holds the addresses   *)
(* of its Nodes, a Node the addresses of its Edges, so that two graphs can     *)
(* hold the same object.  A new object gets the next address.                  *)

GraphObject(directed) == [directed |-> directed, node_map |-> <<>>]

NodeObject(label, value) == [label |-> label, value |-> value, connections |-> <<>>]

\* the Graph at address graph, read through the addresses into the value that
\* the operators above work on
Deref(H, graph) ==
    [directed |-> H[graph].directed,
     node_map |->
        [l \in DOMAIN H[graph].node_map |->
            LET n == H[H[graph].node_map[l]]
            IN  [label |-> n.label, value |-> n.value,
                 connections |-> [i \in 1..Len(n.connections) |->
                                     H[n.connections[i].edge]]]]]

\* Edge.copy: a new Edge at address Len(H) + 1
Edge_copy(H, edge) ==
    Append(H, Edge(H[edge].end_label, H[edge].weight, H[edge].lbound,
                   H[edge].ubound, H[edge].flux))

\* the for loop of Node.copy from connection i on
RECURSIVE Node_copy_connections(_, _, _, _)
Node_copy_connections(H, node, new_node, i) ==
    IF i > Len(H[node].connections) THEN H
    ELSE LET c == H[node].connections[i]
             H1 == Edge_copy(H, c.edge)
         IN  Node_copy_connections(
                 [H1 EXCEPT ![new_node].connections =
                     Append(@, [end_label |-> c.end_label, edge |-> Len(H1)])],
                 node, new_node, i + 1)

\* Node.copy that puts the Edge objects of the node into the new node
Node_copy_shared(H, node) ==
    Append(H, [NodeObject(H[node].label, H[node].value)
                  EXCEPT !.connections = H[node].connections])

\* Node.copy: a new Node at address Len(H) + 1, with a copy of every Edge
Node_copy(H, node) ==
    Node_copy_connections(Append(H, NodeObject(H[node].label, H[node].value)),
                          node, Len(H) + 1, 1)

\* the for loop of Graph.copy from label i of labels on (the order of the labels
\* only decides which address a copy gets)
RECURSIVE Graph_copy_nodes(_, _, _, _, _)
Graph_copy_nodes(H, graph, new_graph, labels, i) ==
    IF i > Len(labels) THEN H
    ELSE LET H1 == Node_copy(H, H[graph].node_map[labels[i]])
         IN  Graph_copy_nodes(
                 [H1 EXCEPT ![new_graph].node_map = (labels[i] :> (Len(H) + 1)) @@ @],
                 graph, new_graph, labels, i + 1)

\* Graph.copy: a new Graph at address Len(H) + 1
Graph_copy(H, graph) ==
    Graph_copy_nodes(Append(H, GraphObject(H[graph].directed)), graph, Len(H) + 1,
                     sorted(DOMAIN H[graph].node_map), 1)

Graph_add_node(H, graph, label, value) ==
    IF label \notin DOMAIN H[graph].node_map
    THEN [Append(H, NodeObject(label, value))
             EXCEPT ![graph].node_map = (label :> (Len(H) + 1)) @@ @]
    ELSE H

\* Node.connect: a new Edge under the key end_label
Node_connect(H, node, end_label, weight, lbound, ubound, flux) ==
    LET i == IndexOf(H[node].connections, end_label)
        H1 == Append(H, Edge(end_label, weight, lbound, ubound, flux))
    IN  IF i = 0
        THEN [H1 EXCEPT ![node].connections =
                 Append(@, [end_label |-> end_label, edge |-> Len(H1)])]
        ELSE [H1 EXCEPT ![node].connections[i].edge = Len(H1)]

Graph_add_connection(H, graph, start_label, end_label, weight, lbound, ubound, flux) ==
    LET H1 == Graph_add_node(H, graph, start_label, None)
        H2 == Graph_add_node(H1, graph, end_label, None)
    IN  IF H2[graph].directed \/ start_label <= end_label
        THEN Node_connect(H2, H2[graph].node_map[start_label], end_label,
                          weight, lbound, ubound, flux)
        ELSE Node_connect(H2, H2[graph].node_map[end_label], start_label,
                          weight, lbound, ubound, flux)

\* Graph.remove_connection where it does not raise
Graph_remove_connection(H, graph, start_label, end_label) ==
    [H EXCEPT ![H[graph].node_map[start_label]].connections =
        SelectSeq(@, LAMBDA c : c.end_label # end_label)]

\* the address of the Edge start_label -> end_label of a stored arc
EdgeAddress(H, graph, start_label, end_label) ==
    LET conns == H[H[graph].node_map[start_label]].connections
    IN  conns[IndexOf(conns, end_label)].edge

\* the per-arc setters where they do not raise: an assignment to a field of the Edge
Graph_set_weight(H, graph, start_label, end_label, weight) ==
    [H EXCEPT ![EdgeAddress(H, graph, start_label, end_label)].weight = weight]

Graph_set_lbound(H, graph, start_label, end_label, lbound) ==
    [H EXCEPT ![EdgeAddress(H, graph, start_label, end_label)].lbound = lbound]

Graph_set_ubound(H, graph, start_label, end_label, ubound) ==
    [H EXCEPT ![EdgeAddress(H, graph, start_label, end_label)].ubound = ubound]

Graph_set_flux(H, graph, start_label, end_label, flux) ==
    [H EXCEPT ![EdgeAddress(H, graph, start_label, end_label)].flux = flux]

\* the set_flux calls of a max_flux run that left the graph F: the Edges of
\* graph get the flux they have in F
Graph_store_flux(H, graph, F) ==
    LET nm == H[graph].node_map
        Slots == UNION {{<<l, i>> : i \in 1..Len(H[nm[l]].connections)} : l \in DOMAIN nm}
        Held(a) == {p \in Slots : H[nm[p[1]]].connections[p[2]].edge = a}
    IN  [a \in 1..Len(H) |->
            IF Held(a) = {} THEN H[a]
            ELSE LET p == CHOOSE q \in Held(a) : TRUE
                 IN  [H[a] EXCEPT !.flux = F.node_map[p[1]].connections[p[2]].flux]]

-----------------------------------------------------------------------------
(* A program that holds a graph g, takes h = g.copy() and then calls the      *)
(* mutations of g and of h in any order                                       *)

\* the calls made after the copy
MaxCalls == 2

\* a graph built by add_node and add_connection calls, its Graph at address 1
BuiltObjects(directed, valued, forth, back) ==
    LET H0 == <<GraphObject(directed)>>
        H1 == IF valued THEN Graph_add_node(H0, 1, 1, Some(7)) ELSE H0
        H2 == IF forth
              THEN Graph_add_connection(H1, 1, 1, 2, Some(1), None, Some(1), Some(0))
              ELSE H1
    IN  IF back
        THEN Graph_add_connection(H2, 1, 2, 1, None, Some(1), Some(2), Some(0))
        ELSE H2

\* the values the calls on g and h pass
CopyNodeValues == {None, Some(8)}

CopyWeightValues == {None, Some(2)}

CopyLboundValues == {Some(0)}

CopyUboundValues == {Some(1)}

CopyFluxValues == {Some(1)}

\* refs.h = 0: the name h is not bound yet
CopyInit ==
    /\ objects \in {BuiltObjects(directed, valued, forth, back) :
                       directed \in BOOLEAN, valued \in BOOLEAN,
                       forth \in BOOLEAN, back \in BOOLEAN}
    /\ refs = [g |-> 1, h |-> 0]
    /\ calls = 0
    /\ g = Deref(objects, refs.g)
    /\ g0 = g
    /\ args = [op |-> "Graph", target |-> "g"]
    /\ pc = "idle"
    /\ queue = FifoQueue
    /\ father = <<>>
    /\ capacity = <<>>
    /\ distance = <<>>
    /\ path = [nodes |-> <<>>, capacity |-> 0]
    /\ result = <<>>
    /\ raised = "none"
    /\ pending = <<>>

\* h = g.copy()
Copy ==
    /\ refs.h = 0
    /\ args' = [op |-> "copy", target |-> "g"]
    /\ objects' = Graph_copy(objects, refs.g)
    /\ refs' = [refs EXCEPT !.h = Len(objects) + 1]
    /\ g0' = g
    /\ g' = Deref(objects', refs.g)
    /\ raised' = "none"
    /\ UNCHANGED <<pc, queue, father, capacity, distance, path, result, calls, pending>>

\* what every call after the copy does besides its own effect: g is the graph
\* the name g stands for, g0 that graph before the call
Called ==
    /\ calls' = calls + 1
    /\ g0' = g
    /\ g' = Deref(objects', refs.g)

AddNodeOn ==
    \E target \in {"g", "h"},
       label \in GraphLabels,
       value \in CopyNodeValues :
        /\ refs.h # 0 /\ calls < MaxCalls
        /\ args' = [op |-> "add_node", target |-> target, label |-> label, value |-> value]
        /\ raised' = IF add_node_raises(add_node(Deref(objects, refs[target]), label, value), label, value)
                   THEN "AttributeError" ELSE "none"
        /\ objects' = IF raised' = "none"
                      THEN Graph_add_node(objects, refs[target], label, value)
                      ELSE objects
        /\ Called
        /\ UNCHANGED <<pc, queue, father, capacity, distance, path, result, refs, pending>>

AddConnectionOn ==
    \E target \in {"g", "h"},
       start_label \in GraphLabels,
       end_label \in GraphLabels,
       weight \in CopyWeightValues :
        /\ refs.h # 0 /\ calls < MaxCalls
        /\ args' = [op |-> "add_connection", target |-> target, start_label |-> start_label, end_label |-> end_label, weight |-> weight]
        /\ raised' = "none"
        /\ objects' = IF raised' = "none"
                      THEN Graph_add_connection(objects, refs[target], start_label, end_label,
                                                weight, None, Some(2), Some(0))
                      ELSE objects
        /\ Called
        /\ UNCHANGED <<pc, queue, father, capacity, distance, path, result, refs, pending>>

RemoveConnectionOn ==
    \E target \in {"g", "h"},
       start_label \in GraphLabels,
       end_label \in GraphLabels :
        /\ refs.h # 0 /\ calls < MaxCalls
        /\ args' = [op |-> "remove_connection", target |-> target, start_label |-> start_label, end_label |-> end_label]
        /\ raised' = remove_connection_raises(Deref(objects, refs[target]), start_label, end_label)
        /\ objects' = IF raised' = "none"
                      THEN Graph_remove_connection(objects, refs[target], start_label, end_label)
                      ELSE objects
        /\ Called
        /\ UNCHANGED <<pc, queue, father, capacity, distance, path, result, refs, pending>>

SetWeightOn ==
    \E target \in {"g", "h"},
       start_label \in GraphLabels,
       end_label \in GraphLabels,
       weight \in CopyWeightValues :
        /\ refs.h # 0 /\ calls < MaxCalls
        /\ args' = [op |-> "set_weight", target |-> target, start_label |-> start_label, end_label |-> end_label, value |-> weight]
        /\ raised' = arc_access_raises(Deref(objects, refs[target]), start_label, end_label)
        /\ objects' = IF raised' = "none"
                      THEN Graph_set_weight(objects, refs[target], start_label, end_label, weight)
                      ELSE objects
        /\ Called
        /\ UNCHANGED <<pc, queue, father, capacity, distance, path, result, refs, pending>>

SetLboundOn ==
    \E target \in {"g", "h"},
       start_label \in GraphLabels,
       end_label \in GraphLabels,
       lbound \in CopyLboundValues :
        /\ refs.h # 0 /\ calls < MaxCalls
        /\ args' = [op |-> "set_lbound", target |-> target, start_label |-> start_label, end_label |-> end_label, value |-> lbound]
        /\ raised' = arc_access_raises(Deref(objects, refs[target]), start_label, end_label)
        /\ objects' = IF raised' = "none"
                      THEN Graph_set_lbound(objects, refs[target], start_label, end_label, lbound)
                      ELSE objects
        /\ Called
        /\ UNCHANGED <<pc, queue, father, capacity, distance, path, result, refs, pending>>

SetUboundOn ==
    \E target \in {"g", "h"},
       start_label \in GraphLabels,
       end_label \in GraphLabels,
       ubound \in CopyUboundValues :
        /\ refs.h # 0 /\ calls < MaxCalls
        /\ args' = [op |-> "set_ubound", target |-> target, start_label |-> start_label, end_label |-> end_label, value |-> ubound]
        /\ raised' = arc_access_raises(Deref(objects, refs[target]), start_label, end_label)
        /\ objects' = IF raised' = "none"
                      THEN Graph_set_ubound(objects, refs[target], start_label, end_label, ubound)
                      ELSE objects
        /\ Called
        /\ UNCHANGED <<pc, queue, father, capacity, distance, path, result, refs, pending>>

SetFluxOn ==
    \E target \in {"g", "h"},
       start_label \in GraphLabels,
       end_label \in GraphLabels,
       flux \in CopyFluxValues :
        /\ refs.h # 0 /\ calls < MaxCalls
        /\ args' = [op |-> "set_flux", target |-> target, start_label |-> start_label, end_label |-> end_label, value |-> flux]
        /\ raised' = arc_access_raises(Deref(objects, refs[target]), start_label, end_label)
        /\ objects' = IF raised' = "none"
                      THEN Graph_set_flux(objects, refs[target], start_label, end_label, flux)
                      ELSE objects
        /\ Called
        /\ UNCHANGED <<pc, queue, father, capacity, distance, path, result, refs, pending>>

\* max_flux(1, 2) on a directed graph that has both nodes, when the call returns
MaxFluxOn ==
    \E target \in {"g", "h"} :
        LET G == Deref(objects, refs[target])
            run == max_flux(G, 1, 2, MaxRounds)
        IN  /\ refs.h # 0 /\ calls < MaxCalls
            /\ G.directed /\ {1, 2} \subseteq Labels(G)
            /\ run.returned
            /\ args' = [op |-> "max_flux", target |-> target, start |-> 1, end |-> 2]
            /\ raised' = "none"
            /\ objects' = Graph_store_flux(objects, refs[target], run.graph)
            /\ Called
            /\ UNCHANGED <<pc, queue, father, capacity, distance, path, result, refs, pending>>

CopyNext ==
    \/ Copy \/ AddNodeOn \/ AddConnectionOn \/ RemoveConnectionOn
    \/ SetWeightOn \/ SetLboundOn \/ SetUboundOn \/ SetFluxOn \/ MaxFluxOn

CopySpec == CopyInit /\ [][CopyNext]_vars

\* C11: h = g.copy() leaves g as it was and gives h the directed flag, nodes,
\* node values, edges and edge attributes of g; every later call on h
\* (add_node, add_connection, remove_connection, a setter, max_flux) leaves
\* every node, edge and attribute of g as it was, and every later call on g
\* leaves h as it was.
C11_CopyIndependent ==
    [][/\ args'.op = "copy" =>
            /\ Deref(objects', refs'.h) = Deref(objects, refs.g)
            /\ Deref(objects', refs'.g) = Deref(objects, refs.g)
       /\ (args'.op # "copy" /\ args'.target = "h") =>
            Deref(objects', refs'.g) = Deref(objects, refs.g)
       /\ (args'.op # "copy" /\ args'.target = "g") =>
            Deref(objects', refs'.h) = Deref(objects, refs.h)]_vars

\* the copy had an arc with flux, h had max_flux run on it and g then changed too
C11_Witness ==
    /\ refs.h # 0
    /\ calls = 2
    /\ args.target = "g" /\ raised = "none"
    /\ g # g0
    /\ \E u \in Labels(g0), v \in Labels(g0) :
          /\ is_connected(g0, u, v)
          /\ is_connected(Deref(objects, refs.h), u, v)
          /\ get_flux(Deref(objects, refs.h), u, v) # get_flux(g0, u, v)

-----------------------------------------------------------------------------
(* A queue of either class under any interleaving of put and get              *)

\* the puts made on the queue under test
MaxPuts == 4

QueueItems == {1, 2}

\* the value argument of put: FifoQueue takes any, also none; PriorityQueue is
\* given numbers
QueueValues(q) ==
    IF q.kind = "FifoQueue" THEN {None, Some(0), Some(1)}
    ELSE {Some(0), Some(1), Some(2)}

QueueInit ==
    /\ queue \in {FifoQueue, PriorityQueue}
    /\ pending = <<>>
    /\ calls = 0
    /\ args = [op |-> "Queue"]
    /\ result = None
    /\ raised = "none"
    /\ pc = "idle"
    /\ g = Graph(TRUE)
    /\ g0 = g
    /\ father = <<>>
    /\ capacity = <<>>
    /\ distance = <<>>
    /\ path = [nodes |-> <<>>, capacity |-> 0]
    /\ objects = <<>>
    /\ refs = <<>>

\* the position in pending of the put a queue of that kind is to return next:
\* the oldest one, or for a priority queue the oldest among those of lowest value
NextOut(kind, puts) ==
    IF kind = "FifoQueue" THEN 1
    ELSE SetMin({i \in 1..Len(puts) :
                    \A j \in 1..Len(puts) : puts[i].value[1] <= puts[j].value[1]})

\* puts without the entry at position i
Without(puts, i) == SubSeq(puts, 1, i - 1) \o SubSeq(puts, i + 1, Len(puts))

\* queue.put(item, value); calls counts the puts
QueuePut ==
    \E item \in QueueItems, value \in QueueValues(queue) :
        /\ calls < MaxPuts
        /\ args' = [op |-> "put", item |-> item, value |-> value]
        /\ queue' = put(queue, item, value)
        /\ pending' = Append(pending, [item |-> item, value |-> value])
        /\ calls' = calls + 1
        /\ result' = None
        /\ raised' = "none"
        /\ UNCHANGED <<pc, g, g0, father, capacity, distance, path, objects, refs>>

\* queue.get(): the item comes back in result, or the call raises
QueueGet ==
    /\ args' = [op |-> "get"]
    /\ raised' = get_raises(queue)
    /\ IF raised' = "none"
       THEN /\ result' = Some(get(queue).item)
            /\ queue' = get(queue).queue
            /\ pending' = Without(pending, NextOut(queue.kind, pending))
       ELSE /\ result' = None
            /\ UNCHANGED <<queue, pending>>
    /\ UNCHANGED <<pc, g, g0, father, capacity, distance, path, objects, refs, calls>>

QueueNext == QueuePut \/ QueueGet

QueueSpec == QueueInit /\ [][QueueNext]_vars

\* C22: under any interleaving of put and get on a FifoQueue, get returns the
\* pending item that was put first, whatever value arguments put was given.
C22_FifoOrder ==
    [][(queue.kind = "FifoQueue" /\ args'.op = "get" /\ pending # <<>>) =>
          /\ raised' = "none"
          /\ result' = Some(pending[1].item)]_vars

C22_Witness ==
    /\ queue.kind = "FifoQueue"
    /\ args.op = "get" /\ raised = "none"
    /\ Len(pending) = 2
    /\ pending[1].item = result[1] /\ pending[1].value # pending[2].value
    /\ calls = 4

\* C23: under any interleaving of put and get on a PriorityQueue, get returns a
\* pending item whose value is the lowest among the pending ones, and of the
\* pending items of that lowest value the one that was put first.
C23_PriorityOrder ==
    [][(queue.kind = "PriorityQueue" /\ args'.op = "get" /\ pending # <<>>) =>
          /\ raised' = "none"
          /\ result' = Some(pending[NextOut("PriorityQueue", pending)].item)]_vars

\* two puts of the lowest value are pending behind an older put of a higher value
C23_Witness ==
    /\ queue.kind = "PriorityQueue"
    /\ args.op = "get" /\ raised = "none"
    /\ Len(pending) = 3
    /\ pending[1].value[1] > pending[2].value[1]
    /\ pending[2].value = pending[3].value
    /\ pending[2].item # pending[3].item

\* C24: for both classes get on an empty queue raises EmptyException and leaves
\* the queue empty and usable: a put followed by a get then returns the item put.
C24_GetOnEmpty ==
    [][(args'.op = "get" /\ pending = <<>>) =>
          /\ raised' = "EmptyException"
          /\ qsize(queue') = 0
          /\ \A item \in QueueItems, value \in QueueValues(queue') :
                LET q == put(queue', item, value)
                IN  /\ get_raises(q) = "none"
                    /\ get(q).item = item
                    /\ qsize(get(q).queue) = 0]_vars

\* a get failed on a queue that had held items before
C24_Witness ==
    /\ args.op = "get" /\ raised = "EmptyException"
    /\ queue.kind = "PriorityQueue"
    /\ calls >= 2 /\ pending = <<>>

\* C25: for both classes and any sequence of put and get, qsize is the number
\* of puts minus the number of gets that returned an item, and is_in(item) is
\* true exactly when a copy of item has been put and not yet been returned.
C25_SizeAndMembership ==
    /\ qsize(queue) = Len(pending)
    /\ \A item \in QueueItems :
          is_in(queue, item) <=> \E i \in 1..Len(pending) : pending[i].item = item

C25_Witness ==
    /\ queue.kind = "PriorityQueue"
    /\ args.op = "get" /\ raised = "none"
    /\ Len(pending) = 2 /\ calls = 4
    /\ is_in(queue, 1) /\ ~is_in(queue, 2)

-----------------------------------------------------------------------------
(* residual_graph and flux_forward_star *)

\* _to_be_inserted(rg, s, e, w): "True", "False", or "TypeError" where the
\* comparison rg.get_weight(s, e) < w meets None (rg.get_weight != None compares
\* the method itself and is always true)
to_be_inserted(rg, s, e, w) ==
    IF ~is_connected(rg, s, e) THEN "True"
    ELSE IF get_weight(rg, s, e) = None \/ w = None THEN "TypeError"
    ELSE IF get_weight(rg, s, e)[1] < w[1] THEN "True"
    ELSE "False"

\* the insertion that also stores an arc of residual capacity 0
residual_insert_any(st, s, e, w, residual_ubound) ==
    IF st.raised # "none" THEN st
    ELSE LET t == to_be_inserted(st.graph, s, e, w)
         IN  IF t = "TypeError" THEN [st EXCEPT !.raised = "TypeError"]
             ELSE IF t = "True" /\ residual_ubound >= 0
             THEN [st EXCEPT !.graph =
                      add_connection(@, s, e, w, None, Some(residual_ubound), None)]
             ELSE st

\* one "if _to_be_inserted(...)" block of residual_graph; st = [graph, raised]
residual_insert(st, s, e, w, residual_ubound) ==
    IF st.raised # "none" THEN st
    ELSE LET t == to_be_inserted(st.graph, s, e, w)
         IN  IF t = "TypeError" THEN [st EXCEPT !.raised = "TypeError"]
             ELSE IF t = "True" /\ residual_ubound > 0
             THEN [st EXCEPT !.graph =
                      add_connection(@, s, e, w, None, Some(residual_ubound), None)]
             ELSE st

\* w * (-1) when w != None
negated(w) == IF w # None THEN Some(0 - w[1]) ELSE None

\* the inner for loop of residual_graph over the forward star of node, from i on
RECURSIVE residual_star(_, _, _, _, _)
residual_star(st, G, node, star, i) ==
    IF i > Len(star) THEN st
    ELSE LET end_node == star[i]
             w == get_weight(G, node, end_node)
             st1 == residual_insert(st, node, end_node, w,
                        get_ubound(G, node, end_node)[1] - get_flux(G, node, end_node)[1])
             st2 == residual_insert(st1, end_node, node, negated(w),
                        get_flux(G, node, end_node)[1])
         IN  residual_star(st2, G, node, star, i + 1)

\* the outer for loop of residual_graph over list_nodes, from i on
RECURSIVE residual_nodes(_, _, _, _)
residual_nodes(st, G, nodes, i) ==
    IF i > Len(nodes) THEN st
    ELSE residual_nodes(residual_star(st, G, nodes[i], forward_star(G, nodes[i]), 1),
                        G, nodes, i + 1)

\* residual_graph: the graph built (returned when raised is "none")
residual_graph(G) ==
    residual_nodes([graph |-> Graph(TRUE), raised |-> "none"], G, list_nodes(G), 1)

\* flux_forward_star: its first loop calls self.forward_star(self, start_label),
\* one argument more than forward_star takes, so the first item asked of the
\* generator raises TypeError and nothing is yielded
flux_forward_star(G, start_label) == [raised |-> "TypeError", nodes |-> <<>>]

\* networks with a flow: nodes 1..3 and the arcs 1->2, 2->1, 2->3
ResidualArcs == << <<1, 2>>, <<2, 1>>, <<2, 3>> >>

\* an arc is absent or has a weight (or none), a capacity and a flux within it
ResidualChoices ==
    {[present |-> FALSE, weight |-> None, ubound |-> 0, flux |-> 0]} \cup
    {[present |-> TRUE, weight |-> w, ubound |-> c, flux |-> f] :
        w \in {None, Some(1), Some(2)}, c \in 0..MaxCap, f \in 0..MaxCap}

RECURSIVE add_flows(_, _, _, _)
add_flows(G, arcs, cs, i) ==
    IF i > Len(arcs) THEN G
    ELSE add_flows(IF cs[i].present
                   THEN add_connection(G, arcs[i][1], arcs[i][2], cs[i].weight, None,
                                       Some(cs[i].ubound), Some(cs[i].flux))
                   ELSE G,
                   arcs, cs, i + 1)

ResidualNetworks ==
    {add_flows(add_nodes(Graph(TRUE), <<1, 2, 3>>, 1), ResidualArcs, cs, 1) :
        cs \in [1..Len(ResidualArcs) -> {c \in ResidualChoices : c.flux <= c.ubound}]}

ResidualInit ==
    /\ g \in ResidualNetworks
    /\ g0 = g
    /\ args = [op |-> "Graph"]
    /\ result = None
    /\ raised = "none"
    /\ pc = "idle"
    /\ queue = FifoQueue
    /\ father = <<>>
    /\ capacity = <<>>
    /\ distance = <<>>
    /\ path = [nodes |-> <<>>, capacity |-> 0]
    /\ objects = <<>>
    /\ refs = <<>>
    /\ calls = 0
    /\ pending = <<>>

\* g.residual_graph(): it reads g through getters only
ResidualGraph ==
    /\ args' = [op |-> "residual_graph"]
    /\ g0' = g
    /\ raised' = residual_graph(g).raised
    /\ result' = IF raised' = "none" THEN residual_graph(g).graph ELSE None
    /\ UNCHANGED <<pc, g, queue, father, capacity, distance, path, objects, refs, calls, pending>>

\* list(g.flux_forward_star(start_label))
FluxForwardStar ==
    \E start_label \in Labels(g) :
        /\ args' = [op |-> "flux_forward_star", start_label |-> start_label]
        /\ g0' = g
        /\ raised' = flux_forward_star(g, start_label).raised
        /\ result' = flux_forward_star(g, start_label).nodes
        /\ UNCHANGED <<pc, g, queue, father, capacity, distance, path, objects, refs, calls, pending>>

ResidualNext == ResidualGraph \/ FluxForwardStar

ResidualSpec == ResidualInit /\ [][ResidualNext]_vars

\* no two arcs of G join the same two nodes in opposite directions
NoOppositeArcs(G) == \A a \in Arcs(G) : <<a[2], a[1]>> \notin Arcs(G)

\* the arcs of G with spare capacity, and those that carry flux, reversed
SpareArcs(G) ==
    {a \in Arcs(G) : get_flux(G, a[1], a[2])[1] < get_ubound(G, a[1], a[2])[1]}

CarryingArcsReversed(G) ==
    {<<a[2], a[1]>> : a \in {b \in Arcs(G) : get_flux(G, b[1], b[2])[1] > 0}}

\* C26: on a directed graph without arcs in opposite directions residual_graph()
\* returns a graph whose arcs are exactly u->v, with capacity
\* capacity(u,v) - flux(u,v) and the weight of u->v, for every arc u->v with
\* flux < capacity, and v->u, with capacity flux(u,v) and the negated weight,
\* for every arc u->v with flux > 0; the graph itself is left as it was.
C26_ResidualGraph ==
    (args.op = "residual_graph" /\ NoOppositeArcs(g0)) =>
        /\ raised = "none"
        /\ g = g0
        /\ Arcs(result) = SpareArcs(g0) \cup CarryingArcsReversed(g0)
        /\ \A a \in SpareArcs(g0) :
              /\ get_ubound(result, a[1], a[2]) =
                     Some(get_ubound(g0, a[1], a[2])[1] - get_flux(g0, a[1], a[2])[1])
              /\ get_weight(result, a[1], a[2]) = get_weight(g0, a[1], a[2])
        /\ \A a \in CarryingArcsReversed(g0) :
              /\ get_ubound(result, a[1], a[2]) = get_flux(g0, a[2], a[1])
              /\ get_weight(result, a[1], a[2]) = negated(get_weight(g0, a[2], a[1]))

C26_Witness ==
    /\ args.op = "residual_graph" /\ NoOppositeArcs(g0)
    /\ Arcs(g0) = {<<1, 2>>, <<2, 3>>}
    /\ Arcs(result) = {<<1, 2>>, <<2, 1>>, <<3, 2>>}
    /\ get_weight(result, 2, 1) = Some(-2)

\* C27: when the forward residual arc of s->e and the reverse residual arc of
\* e->s both exist, residual_graph() returns a graph whose arc s->e has the
\* lower of the two weights.
C27_LowestWeight ==
    args.op = "residual_graph" =>
        \A a \in SpareArcs(g0) \cap CarryingArcsReversed(g0) :
            /\ raised = "none"
            /\ is_connected(result, a[1], a[2])
            /\ LET forward == get_weight(g0, a[1], a[2])
                   reverse == negated(get_weight(g0, a[2], a[1]))
               IN  (forward # None /\ reverse # None) =>
                       get_weight(result, a[1], a[2]) = Some(Min(forward[1], reverse[1]))

\* C28: flux_forward_star(u) yields, each once, exactly the nodes v with an arc
\* u->v of flux < capacity or an arc v->u of flux > 0.
C28_FluxForwardStar ==
    args.op = "flux_forward_star" =>
        /\ raised = "none"
        /\ Members(result) =
              {v \in Labels(g0) : \/ <<args.start_label, v>> \in SpareArcs(g0)
                                  \/ <<args.start_label, v>> \in CarryingArcsReversed(g0)}
        /\ \A i \in 1..Len(result), j \in 1..Len(result) : result[i] = result[j] => i = j

-----------------------------------------------------------------------------
(* dijkstra and bellman as one call, on values and on objects *)

\* the while loop of _shortest_path, from the state st on;
\* st = [distance, father, queue, raised]
RECURSIVE shortest_path_loop(_, _)
shortest_path_loop(G, st) ==
    IF st.raised # "none" \/ empty(st.queue) THEN st
    ELSE LET got == get(st.queue)
         IN  shortest_path_loop(G, visit(G, got.item,
                                         [distance |-> st.distance, father |-> st.father,
                                          queue |-> got.queue]))

\* _shortest_path up to the end of its while loop, queue being the empty queue
\* dijkstra or bellman made
shortest_path(G, start_node, q) ==
    shortest_path_loop(G, [distance |-> [node \in Labels(G) |->
                                            IF node = start_node THEN 0 ELSE Inf],
                           father |-> [node \in Labels(G) |-> None],
                           queue |-> put(q, start_node, Some(0)),
                           raised |-> "none"])

\* set_node_value raises KeyError from self.node_map[label]
set_node_value_raises(G, label) == IF label \notin Labels(G) THEN "KeyError" ELSE "none"

\* Graph.set_node_value where it does not raise: an assignment to a field of the Node
Graph_set_node_value(H, graph, label, value) ==
    [H EXCEPT ![H[graph].node_map[label]].value = value]

\* the for-loop that fills the Graph at address res, over list_nodes, from index i on
RECURSIVE Graph_build_result(_, _, _, _, _, _)
Graph_build_result(H, res, nodes, i, fa, dist) ==
    IF i > Len(nodes) THEN H
    ELSE
      LET node == nodes[i]
      IN  Graph_build_result(
              IF fa[node] # None
              THEN Graph_set_node_value(
                       Graph_add_connection(H, res, fa[node][1], node,
                                            None, None, None, None),
                       res, node, Some(dist[node]))
              ELSE H,
              res, nodes, i + 1, fa, dist)

\* _shortest_path with "result = self" where the code has "result = Graph()"
Graph_shortest_path_in_place(H, graph, start_node, q) ==
    LET G == Deref(H, graph)
        run == shortest_path(G, start_node, q)
        H1 == Graph_add_node(H, graph, start_node, Some(0))
    IN  [raised |-> run.raised,
         result |-> IF run.raised = "none" THEN graph ELSE 0,
         objects |-> IF run.raised = "none"
                     THEN Graph_build_result(H1, graph, list_nodes(G), 1,
                                             run.father, run.distance)
                     ELSE H]

\* _shortest_path on the Graph at address graph: what it raises, the address
\* of the Graph it returns (a new Graph at address Len(H) + 1; 0 when it
\* raises) and the objects after the call
Graph_shortest_path(H, graph, start_node, q) ==
    LET G == Deref(H, graph)
        run == shortest_path(G, start_node, q)
        res == Len(H) + 1
        H1 == Graph_add_node(Append(H, GraphObject(TRUE)), res, start_node, Some(0))
    IN  [raised |-> run.raised,
         result |-> IF run.raised = "none" THEN res ELSE 0,
         objects |-> IF run.raised = "none"
                     THEN Graph_build_result(H1, res, list_nodes(G), 1,
                                             run.father, run.distance)
                     ELSE H]

-----------------------------------------------------------------------------
(* A program that holds a graph g, takes h = g.dijkstra(1) or h = g.bellman(1) *)
(* and then calls mutations of g and of h in any order                         *)

\* a weighted graph built by add_node and add_connection calls, its Graph at address 1
WeightedObjects(directed, forth, hop, far) ==
    LET H0 == Graph_add_node(<<GraphObject(directed)>>, 1, 1, Some(7))
        H1 == IF forth
              THEN Graph_add_connection(H0, 1, 1, 2, Some(1), None, None, None)
              ELSE H0
        H2 == IF hop
              THEN Graph_add_connection(H1, 1, 2, 3, None, None, None, None)
              ELSE H1
    IN  IF far
        THEN Graph_add_connection(H2, 1, 1, 3, Some(2), None, None, None)
        ELSE H2

\* refs.h = 0: the name h is not bound yet
ResultInit ==
    /\ objects \in {WeightedObjects(directed, forth, hop, far) :
                       directed \in BOOLEAN, forth \in BOOLEAN,
                       hop \in BOOLEAN, far \in BOOLEAN}
    /\ refs = [g |-> 1, h |-> 0]
    /\ calls = 0
    /\ g = Deref(objects, refs.g)
    /\ g0 = g
    /\ args = [op |-> "Graph", target |-> "g"]
    /\ pc = "idle"
    /\ queue = FifoQueue
    /\ father = <<>>
    /\ capacity = <<>>
    /\ distance = <<>>
    /\ path = [nodes |-> <<>>, capacity |-> 0]
    /\ result = <<>>
    /\ raised = "none"
    /\ pending = <<>>

\* h = g.dijkstra(1) or h = g.bellman(1); when the call raises h stays unbound
ShortestPathOn ==
    \E alg \in {"dijkstra", "bellman"} :
        LET run == Graph_shortest_path(objects, refs.g, 1,
                                       IF alg = "dijkstra" THEN PriorityQueue ELSE FifoQueue)
        IN  /\ refs.h = 0
            /\ args' = [op |-> alg, target |-> "g", start |-> 1]
            /\ raised' = run.raised
            /\ objects' = run.objects
            /\ refs' = [refs EXCEPT !.h = run.result]
            /\ g0' = g
            /\ g' = Deref(objects', refs.g)
            /\ UNCHANGED <<pc, queue, father, capacity, distance, path, result, calls, pending>>

SetNodeValueOn ==
    \E target \in {"g", "h"},
       label \in GraphLabels,
       value \in CopyNodeValues :
        /\ refs.h # 0 /\ calls < MaxCalls
        /\ args' = [op |-> "set_node_value", target |-> target, label |-> label, value |-> value]
        /\ raised' = set_node_value_raises(Deref(objects, refs[target]), label)
        /\ objects' = IF raised' = "none"
                      THEN Graph_set_node_value(objects, refs[target], label, value)
                      ELSE objects
        /\ Called
        /\ UNCHANGED <<pc, queue, father, capacity, distance, path, result, refs, pending>>

ResultNext == ShortestPathOn \/ SetNodeValueOn \/ AddConnectionOn \/ SetWeightOn

ResultSpec == ResultInit /\ [][ResultNext]_vars

\* C35: dijkstra(start) and bellman(start) leave the nodes, node values, arcs
\* and arc attributes of the graph they run on as they were, and return a
\* graph of their own: every later set_node_value, add_connection or
\* set_weight on the result leaves the source graph as it was.
C35_ResultSeparate ==
    [][/\ args'.op \in {"dijkstra", "bellman"} =>
            /\ Deref(objects', refs'.g) = Deref(objects, refs.g)
            /\ raised' = "none" => refs'.h \notin {0, refs'.g}
       /\ (args'.op \notin {"dijkstra", "bellman"} /\ args'.target = "h") =>
            Deref(objects', refs'.g) = Deref(objects, refs.g)]_vars

\* the result of a search that reached node 3 over weighted arcs has had the
\* value of node 2 set and an arc replaced
C35_Witness ==
    /\ refs.h # 0
    /\ calls = 2
    /\ args.target = "h" /\ raised = "none"
    /\ is_connected(g, 1, 2) /\ get_weight(g, 1, 2) = Some(1)
    /\ {2, 3} \subseteq Labels(Deref(objects, refs.h))
    /\ get_node_value(Deref(objects, refs.h), 2) = Some(8)
    /\ is_connected(Deref(objects, refs.h), 1, 2)
    /\ get_weight(Deref(objects, refs.h), 1, 2) = Some(2)

-----------------------------------------------------------------------------
(* dijkstra and bellman on undirected graphs *)

\* the add_connection calls that build the undirected graphs, some of them
\* naming the larger endpoint first
UndirectedArcs == << <<1, 2>>, <<3, 1>>, <<3, 2>>, <<2, 4>> >>

NonNegativeChoices == {c \in ArcChoices : c.weight = None \/ c.weight[1] >= 0}

\* every undirected graph on nodes 1..4 over the edges of UndirectedArcs, each
\* absent or with a weight that is not negative
UndirectedGraphs ==
    {add_weighted(add_nodes(Graph(FALSE), <<1, 2, 3, 4>>, 1), UndirectedArcs, ws, 1) :
        ws \in [1..Len(UndirectedArcs) -> NonNegativeChoices]}

\* dijkstra(root) and then bellman(root), root 1 or 3
UndirectedInit ==
    /\ g \in UndirectedGraphs
    /\ g0 = g
    /\ args \in {[start |-> root, alg |-> "dijkstra"] : root \in {1, 3}}
    /\ pc = "sp_call"
    /\ queue = FifoQueue
    /\ father = <<>>
    /\ capacity = <<>>
    /\ distance = <<>>
    /\ path = [nodes |-> <<>>, capacity |-> 0]
    /\ result = [dijkstra |-> None, bellman |-> None]
    /\ raised = "none"
    /\ objects = <<>>
    /\ refs = <<>>
    /\ calls = 0
    /\ pending = <<>>

UndirectedSpec == UndirectedInit /\ [][PathNext]_vars

\* the directed graph that has every edge of the undirected graph G as two
\* arcs, both with the weight the edge is stored with
Symmetric(G) ==
    [directed |-> TRUE,
     node_map |->
        [l \in Labels(G) |->
            [G.node_map[l] EXCEPT !.connections =
                @ \o [i \in 1..Len(backward_star(G, l)) |->
                        Edge(backward_star(G, l)[i],
                             get_weight(G, backward_star(G, l)[i], l),
                             None, None, None)]]]]

\* C36: on an undirected graph without negative weights dijkstra(root) and
\* bellman(root) raise nothing, and when they return every node connected to
\* the root, through edges stored under either endpoint, is in the result with
\* the least total weight of a path between the root and it.
C36_UndirectedDistances ==
    /\ raised = "none"
    /\ JustReturned =>
          \A v \in Reachable(Symmetric(g), args.start) :
              /\ v \in Labels(LastResult)
              /\ get_node_value(LastResult, v) =
                     Some(DistOf(TrueDistance(Symmetric(g), args.start), v))

====
